---- MODULE Spec2Model ----
(***************************************************************************)
(* Model of bgraph's Soong parser (src/src/bgraph/parsers/soong_parser.py): *)
(* the defaults merge (_merge_section), the defaults resolution             *)
(* (_retrieve_section / get_section) and the per-file parse with its        *)
(* variable scopes (SoongFileParser, SoongParser.parse_file).               *)
(*                                                                         *)
(* Representation of Python values.  A string is the sequence of its       *)
(* characters (<<"a","b">> is "ab").  A value is a pair <<tag, payload>>    *)
(* whose tag is the Python type: "str", "bool", "int", "list" (a sequence  *)
(* of strings), "map" (a dict) or "path" (a pathlib.Path, the sequence of  *)
(* its components, each a string).  A dict is the sequence of its [k, v]   *)
(* entries in insertion order, keys distinct.                              *)
(***************************************************************************)
EXTENDS Integers, Sequences, FiniteSets, TLC

VARIABLES
    arg_section,        \* _merge_section: the child map (section_map) of the merge under study
    arg_default,        \* _merge_section: the default (base) map (default_map)
    arg_over,           \* a third map, merged over the two others
    res_final,          \* outcome of _merge_section(arg_section, arg_default)
    res_over,           \* outcome of _merge_section(arg_over, res_final)
    res_inner,          \* outcome of _merge_section(arg_over, arg_section)
    res_assoc,          \* outcome of _merge_section(res_inner, arg_default)
    sections,           \* SoongParser.sections: name -> stored variants
    variables,          \* SoongParser.variables
    project_variables,  \* parse_project's project_variables
    project,            \* parse_project: the project it iterates over and where it stands
    parser,             \* the SoongFileParser of the parse_file call under way
    assigned,           \* the assignments made in the scope under way, name -> last value
    last,               \* the last statement the grammar matched and what it did
    n_files,            \* number of parse_file calls made so far
    n_stmts,            \* number of statements matched so far, all files together
    file_listing,       \* SoongParser.file_listing: project path -> files of the project
    graph,              \* the graph build_source_map returned, if it was called
    worktree,           \* the branch directory: project directories, .git, files.pickle
    heap,               \* the dict and list objects of the merges run on objects
    call                \* record of the last call: what it was, what it found, how it ended

vars == <<arg_section, arg_default, arg_over, res_final, res_over, res_inner,
          res_assoc, sections, variables, project_variables, project, parser,
          assigned, last, n_files, n_stmts, file_listing, graph, worktree, heap, call>>

merge_vars == <<arg_section, arg_default, arg_over, res_final, res_over,
                res_inner, res_assoc>>

parse_vars == <<variables, project_variables, project, parser, assigned, last, n_files,
                n_stmts>>

parser_vars == <<sections, parse_vars>>

graph_vars == <<file_listing, graph>>

builder_vars == <<worktree>>

heap_vars == <<heap>>

----------------------------------------------------------------------------
(* Python values: <<tag, payload>> *)

Tag(x) == x[1]

Val(x) == x[2]

VStr(s) == <<"str", s>>

VBool(b) == <<"bool", b>>

VInt(i) == <<"int", i>>

VList(l) == <<"list", l>>

VMap(d) == <<"map", d>>

VPath(p) == <<"path", p>>

(* dict operations, insertion-ordered as Python's *)

Keys(d) == {d[i].k : i \in DOMAIN d}

Has(d, key) == \E i \in DOMAIN d : d[i].k = key

Idx(d, key) == CHOOSE i \in DOMAIN d : d[i].k = key

Get(d, key) == d[Idx(d, key)].v

Put(d, key, val) ==
    IF Has(d, key)
    THEN [d EXCEPT ![Idx(d, key)] = [k |-> key, v |-> val]]
    ELSE Append(d, [k |-> key, v |-> val])

Del(d, key) == SelectSeq(d, LAMBDA e : e.k # key)

KeyList(d) == [i \in DOMAIN d |-> d[i].k]

(* Python's == on values: dicts compare by content, whatever the insertion order *)
RECURSIVE ValEq(_, _)
ValEq(a, b) ==
    /\ Tag(a) = Tag(b)
    /\ IF Tag(a) = "map"
       THEN /\ Keys(Val(a)) = Keys(Val(b))
            /\ \A key \in Keys(Val(a)) : ValEq(Get(Val(a), key), Get(Val(b), key))
       ELSE Val(a) = Val(b)

DictEq(a, b) == ValEq(VMap(a), VMap(b))

(* s occurs in t as a contiguous substring: Python's `s in t` on two str *)
IsSubstring(s, t) ==
    \E i \in 0..(Len(t) - Len(s)) : \A j \in 1..Len(s) : t[i + j] = s[j]

(* list(x): the elements of a list, the characters of a str, the keys of a   *)
(* dict; on bool, int and Path it raises TypeError (see CanIterate)          *)
list(x) ==
    CASE Tag(x) = "list" -> Val(x)
      [] Tag(x) = "str" -> [i \in DOMAIN Val(x) |-> <<Val(x)[i]>>]
      [] Tag(x) = "map" -> KeyList(Val(x))
      [] OTHER -> <<>>

CanIterate(x) == Tag(x) \in {"list", "str", "map"}

(* `key in x` for a str key: dict key, list element, or substring of a str *)
Contains(x, key) ==
    CASE Tag(x) = "map" -> Has(Val(x), key)
      [] Tag(x) = "list" -> \E i \in DOMAIN Val(x) : Val(x)[i] = key
      [] Tag(x) = "str" -> IsSubstring(key, Val(x))
      [] OTHER -> FALSE

----------------------------------------------------------------------------
(* Outcome of a call: the value returned, or the exception that escapes it *)

Ok(val) == [exc |-> "none", val |-> val]

Raise(e) == [exc |-> e, val |-> VMap(<<>>)]

Done(r) == r.exc # "pending"

Returned(r) == r.exc = "none"

Pending == [exc |-> "pending", val |-> <<>>]

----------------------------------------------------------------------------
(* SoongParser._merge_section *)

(* mutants of the three merge rules *)
merge_new_dropped(mapping, local_key, local_val) == mapping

merge_overwrite_kept(current, local_val) == current

merge_list_default_first(current, local_val) == VList(list(current) \o Val(local_val))

(* `mapping[local_key] = local_val` when the key is new *)
merge_new(mapping, local_key, local_val) == Put(mapping, local_key, local_val)

(* str, bool, int and the other types (Path): the section's value overwrites *)
merge_overwrite(current, local_val) == local_val

(* list: `local_val + list(mapping[local_key])` *)
merge_list(current, local_val) == VList(Val(local_val) \o list(current))

RECURSIVE recursive_merge(_, _, _)
RECURSIVE merge_items(_, _)

(* recursive_merge(mapping, local_key, local_val): the mapping after the     *)
(* call, or the TypeError Python raises.  At top level mapping is the copy   *)
(* of the default map; in the nested call it is mapping[local_key], of any   *)
(* type: `in` raises on bool, int and Path; a str or a list takes no str     *)
(* subscript, so every read or write of mapping[local_key] raises there.     *)
recursive_merge(mapping, local_key, local_val) ==
    IF ~CanIterate(mapping) THEN Raise("TypeError")
    ELSE IF ~Contains(mapping, local_key)
    THEN IF Tag(mapping) = "map"
         THEN Ok(VMap(merge_new(Val(mapping), local_key, local_val)))
         ELSE Raise("TypeError")
    ELSE IF Tag(mapping) # "map"
    THEN IF Tag(local_val) = "map" /\ Val(local_val) = <<>>
         THEN Ok(mapping)
         ELSE Raise("TypeError")
    ELSE LET current == Get(Val(mapping), local_key) IN
         CASE Tag(local_val) \in {"str", "bool", "int"} ->
                Ok(VMap(Put(Val(mapping), local_key, merge_overwrite(current, local_val))))
           [] Tag(local_val) = "list" ->
                IF CanIterate(current)
                THEN Ok(VMap(Put(Val(mapping), local_key, merge_list(current, local_val))))
                ELSE Raise("TypeError")
           [] Tag(local_val) = "map" ->
                LET r == merge_items(current, Val(local_val)) IN
                IF r.exc = "none"
                THEN Ok(VMap(Put(Val(mapping), local_key, r.val)))
                ELSE r
           [] OTHER ->
                Ok(VMap(Put(Val(mapping), local_key, merge_overwrite(current, local_val))))

(* `for key, val in items: recursive_merge(mapping, key, val)`, stopping at  *)
(* the first exception                                                      *)
merge_items(mapping, items) ==
    IF items = <<>> THEN Ok(mapping)
    ELSE LET r == recursive_merge(mapping, Head(items).k, Head(items).v) IN
         IF r.exc = "none" THEN merge_items(r.val, Tail(items)) ELSE r

(* final_map = copy.deepcopy(default_map); every item of section_map merged  *)
(* into it; the outcome's val is the dict returned                           *)
_merge_section(section_map, default_map) ==
    LET r == merge_items(VMap(default_map), section_map) IN
    IF r.exc = "none" THEN [exc |-> "none", val |-> Val(r.val)] ELSE [exc |-> r.exc, val |-> <<>>]

----------------------------------------------------------------------------
(* The strings, values and property maps the merge is run on *)

s_a == <<"a">>

s_b == <<"b">>

s_arm == <<"a", "r", "m">>

s_srcs == <<"s", "r", "c", "s">>

s_arch == <<"a", "r", "c", "h">>

Entry(key, val) == [k |-> key, v |-> val]

MergeValues ==
    { VStr(s_arm), VStr(s_b), VBool(TRUE), VInt(1),
      VList(<<s_a>>), VList(<<s_b, s_a>>),
      VMap(<<>>),
      VMap(<<Entry(s_arm, VStr(s_b))>>),
      VMap(<<Entry(s_arm, VList(<<s_a>>))>>),
      VMap(<<Entry(s_arm, VMap(<<>>))>>) }

MergeKeys == {s_srcs, s_arch}

(* every dict over MergeKeys with values in MergeValues, in every insertion order *)
MergeDicts ==
    {<<>>}
    \cup {<<Entry(key, val)>> : key \in MergeKeys, val \in MergeValues}
    \cup {<<Entry(k1, v1), Entry(k2, v2)>> :
             <<k1, v1, k2, v2>> \in
                {t \in MergeKeys \X MergeValues \X MergeKeys \X MergeValues : t[1] # t[3]}}

OverDicts == {d \in MergeDicts : Len(d) <= 1}

NoCall == [op |-> "none"]

NoProject == [name |-> <<>>, dir |-> <<>>, phase |-> "idle"]

NoParser == [state |-> "none"]

NoStatement == [kind |-> "none"]

NoGraph == [exc |-> "pending"]

ParserIdle ==
    /\ sections = <<>>
    /\ variables = <<>>
    /\ project_variables = <<>>
    /\ project = NoProject
    /\ parser = NoParser
    /\ assigned = <<>>
    /\ last = NoStatement
    /\ n_files = 0
    /\ n_stmts = 0

NoWorktree == [dirs |-> {}, git |-> {}, pickles |-> <<>>]

BuilderIdle == worktree = NoWorktree

NoHeap == [cells |-> <<>>, merges |-> 0]

HeapIdle == heap = NoHeap

GraphIdle ==
    /\ file_listing = <<>>
    /\ graph = NoGraph

MergeIdle ==
    /\ arg_section = <<>>
    /\ arg_default = <<>>
    /\ arg_over = <<>>
    /\ res_final = Pending
    /\ res_over = Pending
    /\ res_inner = Pending
    /\ res_assoc = Pending

MergeInit ==
    /\ arg_section \in MergeDicts
    /\ arg_default \in MergeDicts
    /\ arg_over \in {d \in OverDicts : Keys(d) \cap Keys(arg_section) = {}}
    /\ res_final = Pending
    /\ res_over = Pending
    /\ res_inner = Pending
    /\ res_assoc = Pending
    /\ ParserIdle
    /\ GraphIdle
    /\ BuilderIdle
    /\ HeapIdle
    /\ call = NoCall

(* a merge whose default argument is the outcome of an earlier merge: the    *)
(* earlier exception, if any, is what the caller sees                       *)
MergeOnto(section_map, earlier) ==
    IF Returned(earlier) THEN _merge_section(section_map, earlier.val) ELSE earlier

MergeUnder(earlier, default_map) ==
    IF Returned(earlier) THEN _merge_section(earlier.val, default_map) ELSE earlier

Merge ==
    /\ ~Done(res_final)
    /\ res_final' = _merge_section(arg_section, arg_default)
    /\ UNCHANGED <<arg_section, arg_default, arg_over, res_over, res_inner, res_assoc>>
    /\ UNCHANGED <<parser_vars, call>>
    /\ UNCHANGED graph_vars
    /\ UNCHANGED builder_vars
    /\ UNCHANGED heap_vars

MergeOver ==
    /\ Done(res_final) /\ ~Done(res_over)
    /\ res_over' = MergeOnto(arg_over, res_final)
    /\ UNCHANGED <<arg_section, arg_default, arg_over, res_final, res_inner, res_assoc>>
    /\ UNCHANGED <<parser_vars, call>>
    /\ UNCHANGED graph_vars
    /\ UNCHANGED builder_vars
    /\ UNCHANGED heap_vars

MergeInner ==
    /\ Done(res_over) /\ ~Done(res_inner)
    /\ res_inner' = _merge_section(arg_over, arg_section)
    /\ UNCHANGED <<arg_section, arg_default, arg_over, res_final, res_over, res_assoc>>
    /\ UNCHANGED <<parser_vars, call>>
    /\ UNCHANGED graph_vars
    /\ UNCHANGED builder_vars
    /\ UNCHANGED heap_vars

MergeAssoc ==
    /\ Done(res_inner) /\ ~Done(res_assoc)
    /\ res_assoc' = MergeUnder(res_inner, arg_default)
    /\ UNCHANGED <<arg_section, arg_default, arg_over, res_final, res_over, res_inner>>
    /\ UNCHANGED <<parser_vars, call>>
    /\ UNCHANGED graph_vars
    /\ UNCHANGED builder_vars
    /\ UNCHANGED heap_vars

MergeNext == Merge \/ MergeOver \/ MergeInner \/ MergeAssoc

SpecMerge == MergeInit /\ [][MergeNext]_vars

----------------------------------------------------------------------------
(* Claims on _merge_section *)

IsScalar(x) == Tag(x) \in {"str", "bool", "int"}

SharedKeys == Keys(arg_section) \cap Keys(arg_default)

BothLists(key) ==
    /\ Tag(Get(arg_section, key)) = "list"
    /\ Tag(Get(arg_default, key)) = "list"

(* the two values fall under none of the three same-kind rules *)
Mismatch(key) ==
    LET c == Get(arg_section, key)
        d == Get(arg_default, key)
    IN  /\ ~(IsScalar(c) /\ IsScalar(d))
        /\ ~(Tag(c) = "list" /\ Tag(d) = "list")
        /\ ~(Tag(c) = "map" /\ Tag(d) = "map")

(* C1: a key that holds a list in the section and in the default holds, in   *)
(* the merged map, the section's elements in their order followed by the     *)
(* default's elements in their order: nothing is dropped, deduplicated or    *)
(* reordered, and the length is the sum of both lengths.                     *)
C1_ListRule ==
    Returned(res_final) =>
        \A key \in SharedKeys :
            BothLists(key) =>
                /\ Has(res_final.val, key)
                /\ Get(res_final.val, key) =
                      VList(Val(Get(arg_section, key)) \o Val(Get(arg_default, key)))
                /\ Len(Val(Get(res_final.val, key))) =
                      Len(Val(Get(arg_section, key))) + Len(Val(Get(arg_default, key)))

C1_Witness ==
    /\ Returned(res_final)
    /\ \E key \in SharedKeys :
          /\ BothLists(key)
          /\ Val(Get(arg_section, key)) = <<s_b, s_a>>
          /\ Val(Get(arg_default, key)) = <<s_a>>
          /\ Val(Get(res_final.val, key)) = <<s_b, s_a, s_a>>

(* C3: a key present on both sides with values of mismatched kinds never     *)
(* makes the merge fail, and the merged map holds the section's value for it *)
C3_MismatchChildWins ==
    Done(res_final) =>
        \A key \in SharedKeys :
            Mismatch(key) =>
                /\ Returned(res_final)
                /\ Has(res_final.val, key)
                /\ ValEq(Get(res_final.val, key), Get(arg_section, key))

(* C4: with no key shared by the section map B and the overriding map C,     *)
(* merging C over (B over A) and merging (C over B) over A end alike: the    *)
(* same exception, or equal maps.                                           *)
C4_Associative ==
    Done(res_assoc) =>
        /\ res_over.exc = res_assoc.exc
        /\ Returned(res_assoc) => DictEq(res_over.val, res_assoc.val)

C4_Witness ==
    /\ Returned(res_assoc)
    /\ arg_over # <<>> /\ arg_section # <<>>
    /\ Keys(arg_over) \cap Keys(arg_default) # {}
    /\ Keys(arg_section) \cap Keys(arg_default) # {}
    /\ res_over.val # res_final.val

----------------------------------------------------------------------------
(* SoongParser: class constants and the defaults resolution *)

SECTION_TYPE == <<"s", "o", "o", "n", "g", "_", "p", "a", "r", "s", "e", "r", "_", "s", "e", "c", "t", "i", "o", "n", "_", "t", "y", "p", "e">>

SECTION_PROJECT == <<"s", "o", "o", "n", "g", "_", "p", "a", "r", "s", "e", "r", "_", "s", "e", "c", "t", "i", "o", "n", "_", "p", "r", "o", "j", "e", "c", "t">>

SECTION_PROJECT_PATH == <<"s", "o", "o", "n", "g", "_", "p", "a", "r", "s", "e", "r", "_", "p", "r", "o", "j", "e", "c", "t", "_", "p", "a", "t", "h">>

SOONG_FILE == <<"s", "o", "o", "n", "g", "_", "p", "a", "r", "s", "e", "r", "_", "s", "o", "o", "n", "g", "_", "p", "a", "t", "h">>

DEFAULT_FILENAME == <<"A", "n", "d", "r", "o", "i", "d", ".", "b", "p">>

s_generic == <<"g", "e", "n", "e", "r", "i", "c">>

s_defaults == <<"d", "e", "f", "a", "u", "l", "t", "s">>

(* depth of nested _retrieve_section calls the interpreter's stack allows *)
RecursionLimit == 5

(* the names a `defaults` value lists: `[defaults_list]` unless it is a list *)
(* the names of the defaults taken from the last to the first *)
RECURSIVE backwards(_)
backwards(names) ==
    IF names = <<>> THEN <<>> ELSE backwards(Tail(names)) \o <<Head(names)>>

defaults_names_backwards(defaults_list) ==
    IF Tag(defaults_list) = "list" THEN backwards(Val(defaults_list))
    ELSE <<Val(defaults_list)>>

defaults_names(defaults_list) ==
    IF Tag(defaults_list) = "list" THEN Val(defaults_list) ELSE <<Val(defaults_list)>>

(* mutant: the resolved map is stored with its `defaults` key *)
store_resolved_keeping(store, section_name, index, section_map) ==
    Put(store, section_name, [Get(store, section_name) EXCEPT ![index] = section_map])

(* `del self.sections[section_name][index]["defaults"]` after the store *)
store_resolved(store, section_name, index, section_map) ==
    Put(store, section_name,
        [Get(store, section_name) EXCEPT ![index] = Del(section_map, s_defaults)])

(* mutant: the missing default is not caught *)
caught_nothing(exc) == FALSE

(* `except bgraph.exc.BGraphMissingSectionException: continue` *)
caught(exc) == exc = "BGraphMissingSectionException"

RECURSIVE _retrieve_section(_, _, _, _)
RECURSIVE resolve_defaults(_, _, _, _)
RECURSIVE merge_default(_, _, _, _)
RECURSIVE merge_found(_, _, _, _)
RECURSIVE resolve_variants(_, _, _, _)
RECURSIVE resolve_variant(_, _, _, _, _)
RECURSIVE store_variant(_, _, _, _)

(* `for default_name in defaults_list`: the section merged over each default *)
(* that is found.  The outcome [exc, store, val] carries the store as the    *)
(* nested calls left it.                                                     *)
resolve_defaults(store, section_map, names, depth) ==
    IF names = <<>> THEN [exc |-> "none", store |-> store, val |-> section_map]
    ELSE merge_default(_retrieve_section(store, Head(names), TRUE, depth + 1),
                       section_map, names, depth)

(* the body of the try, d being the outcome of the nested _retrieve_section: *)
(* a missing default is skipped, any other exception escapes                 *)
merge_default(d, section_map, names, depth) ==
    IF caught(d.exc)
    THEN resolve_defaults(d.store, section_map, Tail(names), depth)
    ELSE IF d.exc # "none" THEN d
    ELSE merge_found(_merge_section(section_map, d.val), d.store, names, depth)

(* section_map = self._merge_section(section_map, default_map), m its outcome *)
merge_found(m, store, names, depth) ==
    IF m.exc # "none"
    THEN [exc |-> m.exc, store |-> store, val |-> <<>>]
    ELSE resolve_defaults(store, m.val, Tail(names), depth)

(* `for index, section_map in enumerate(projects)` from position index on *)
resolve_variants(store, section_name, index, depth) ==
    IF index > Len(Get(store, section_name))
    THEN [exc |-> "none", store |-> store, val |-> <<>>]
    ELSE resolve_variant(store, section_name, index, depth,
                         Get(store, section_name)[index])

(* one turn of the loop: a variant without `defaults` is left as it is *)
resolve_variant(store, section_name, index, depth, section_map) ==
    IF ~Has(section_map, s_defaults)
    THEN resolve_variants(store, section_name, index + 1, depth)
    ELSE store_variant(resolve_defaults(store, section_map,
                           defaults_names(Get(section_map, s_defaults)), depth),
                       section_name, index, depth)

(* the end of the turn, r being the outcome of the loop over the defaults *)
store_variant(r, section_name, index, depth) ==
    IF r.exc # "none" THEN r
    ELSE resolve_variants(store_resolved(r.store, section_name, index, r.val),
                          section_name, index + 1, depth)

(* the return of _retrieve_section, r being the outcome of its loop *)
returned_section(r, section_name, recursive) ==
    IF r.exc # "none" THEN r
    ELSE [exc |-> "none", store |-> r.store,
          val |-> IF recursive THEN Get(r.store, section_name)[1]
                               ELSE Get(r.store, section_name)]

(* _retrieve_section(section_name, recursive) on the stored sections `store`, *)
(* as the depth-th nested call: [exc, store, val], the store being            *)
(* self.sections when the call ends, val the value returned.                  *)
_retrieve_section(store, section_name, recursive, depth) ==
    IF depth > RecursionLimit
    THEN [exc |-> "RecursionError", store |-> store, val |-> <<>>]
    ELSE IF ~Has(store, section_name)
    THEN [exc |-> "BGraphMissingSectionException", store |-> store, val |-> <<>>]
    ELSE returned_section(resolve_variants(store, section_name, 1, depth),
                          section_name, recursive)

NoType == <<>>

(* the first section of the wanted type, as a one-element sequence, or <<>> *)
first_of_type(found, section_type) ==
    LET hits == SelectSeq(found, LAMBDA sec : Get(sec, SECTION_TYPE) = VStr(section_type))
    IN  IF hits = <<>> THEN <<>> ELSE <<Head(hits)>>

(* get_section after _retrieve_section, r being its outcome *)
section_of_type(r, section_type) ==
    IF r.exc # "none" \/ section_type = NoType THEN r
    ELSE IF first_of_type(r.val, section_type) = <<>>
    THEN [exc |-> "BGraphMissingSectionException", store |-> r.store, val |-> <<>>]
    ELSE [exc |-> "none", store |-> r.store, val |-> first_of_type(r.val, section_type)[1]]

(* SoongParser.get_section(section_name, section_type) *)
get_section_result(store, section_name, section_type) ==
    section_of_type(_retrieve_section(store, section_name, FALSE, 1), section_type)

----------------------------------------------------------------------------
(* The stored sections the resolution is run on: modules A, B and C of one   *)
(* project, as parse_file stores them; Z is a name no module has.            *)

m_A == <<"A">>

m_B == <<"B">>

m_C == <<"C">>

m_Z == <<"Z">>

cc_binary == <<"c", "c", "_", "b", "i", "n", "a", "r", "y">>

cc_library_static ==
    <<"c", "c", "_", "l", "i", "b", "r", "a", "r", "y", "_", "s", "t", "a", "t", "i", "c">>

cc_defaults == <<"c", "c", "_", "d", "e", "f", "a", "u", "l", "t", "s">>

s_sdk == <<"s", "d", "k">>

Variant(type, name, refs, props) ==
    <<Entry(SECTION_TYPE, VStr(type))>> \o refs \o props
      \o <<Entry(SECTION_PROJECT, VStr(<<"p">>)),
            Entry(SOONG_FILE, VPath(<<<<"p">>, <<name>>, DEFAULT_FILENAME>>)),
            Entry(SECTION_PROJECT_PATH, VPath(<<<<"p">>>>))>>

Refs(values) == {<<>>} \cup {<<Entry(s_defaults, val)>> : val \in values}

PropsA ==
    { <<>>,
      <<Entry(s_srcs, VList(<<s_a>>))>>,
      <<Entry(s_sdk, VStr(s_a))>> }

PropsB ==
    { <<>>,
      <<Entry(s_srcs, VList(<<s_b, s_a>>)), Entry(s_sdk, VBool(TRUE))>>,
      <<Entry(s_sdk, VInt(1))>>,
      <<Entry(s_srcs, VInt(1))>> }

PropsC ==
    { <<Entry(s_srcs, VList(<<s_b>>))>>,
      <<Entry(s_sdk, VStr(s_b)), Entry(s_srcs, VList(<<s_a>>))>> }

VariantsA ==
    { Variant(cc_binary, "A", r, q) :
        r \in Refs({VStr(m_B), VStr(m_C), VStr(m_Z), VStr(m_A), VList(<<>>),
                    VList(<<m_B, m_C>>), VList(<<m_Z, m_C>>)}),
        q \in PropsA }

SecondVariantsA ==
    { Variant(cc_defaults, "A", <<Entry(s_defaults, VStr(m_C))>>,
              <<Entry(s_srcs, VList(<<s_b>>))>>) }

VariantsB ==
    { Variant(cc_defaults, "B", r, q) :
        r \in Refs({VStr(m_C), VList(<<m_C>>), VStr(m_Z), VStr(m_A), VStr(m_B)}),
        q \in PropsB }

VariantsC ==
    { Variant(cc_defaults, "C", r, q) :
        r \in Refs({VStr(m_A), VStr(m_Z)}), q \in PropsC }

Stored(name, variants) == IF variants = <<>> THEN <<>> ELSE <<Entry(name, variants)>>

ResolveInit ==
    /\ \E a \in VariantsA, a2 \in {<<>>} \cup {<<x>> : x \in SecondVariantsA},
          b \in {<<>>} \cup {<<x>> : x \in VariantsB},
          c \in {<<>>} \cup {<<x>> : x \in VariantsC} :
          sections = Stored(m_A, <<a>> \o a2) \o Stored(m_B, b) \o Stored(m_C, c)
    /\ variables = <<>>
    /\ project_variables = <<>>
    /\ project = NoProject
    /\ parser = NoParser
    /\ assigned = <<>>
    /\ last = NoStatement
    /\ n_files = 0
    /\ n_stmts = 0
    /\ MergeIdle
    /\ GraphIdle
    /\ BuilderIdle
    /\ HeapIdle
    /\ call = NoCall

(* what a get_section call of outcome r leaves *)
section_got(r, section_name, section_type) ==
    /\ sections' = r.store
    /\ call' = [op |-> "get_section", name |-> section_name, type |-> section_type,
                exc |-> r.exc, ret |-> r.val, pre |-> sections]

get_section(section_name, section_type) ==
    /\ section_got(get_section_result(sections, section_name, section_type),
                   section_name, section_type)
    /\ UNCHANGED parse_vars
    /\ UNCHANGED merge_vars
    /\ UNCHANGED graph_vars
    /\ UNCHANGED builder_vars
    /\ UNCHANGED heap_vars

ResolveNext ==
    \E section_name \in {m_A, m_B, m_C, m_Z}, section_type \in {NoType, cc_defaults} :
        get_section(section_name, section_type)

SpecResolve == ResolveInit /\ [][ResolveNext]_vars

----------------------------------------------------------------------------
(* Claims on the defaults resolution *)

GotSection == call.op = "get_section"

(* the names a variant lists under `defaults` *)
DefaultsOf(variant) ==
    IF Has(variant, s_defaults)
    THEN LET names == defaults_names(Get(variant, s_defaults))
         IN  {names[i] : i \in DOMAIN names}
    ELSE {}

(* stored modules named by some variant of a module of S *)
NamedBy(store, S) ==
    {d \in Keys(store) :
        \E n \in S : \E i \in DOMAIN Get(store, n) : d \in DefaultsOf(Get(store, n)[i])}

RECURSIVE Closure(_, _, _)
Closure(store, S, fuel) ==
    IF fuel = 0 THEN S ELSE Closure(store, S \cup NamedBy(store, S), fuel - 1)

(* the stored modules get_section(name) reaches through chains of defaults *)
Reached(store, name) ==
    IF Has(store, name) THEN Closure(store, {name}, Len(store)) ELSE {}

(* the resolution starting at name runs into a cycle of defaults *)
LeadsToCycle(store, name) ==
    \E n \in Reached(store, name) : n \in Closure(store, NamedBy(store, {n}), Len(store))

(* a section merged over the first stored variant of each listed default     *)
(* that is stored, taken from `store`                                       *)
RECURSIVE MergedOver(_, _, _)
MergedOver(section, names, store) ==
    IF names = <<>> THEN section
    ELSE IF ~Has(store, Head(names)) THEN MergedOver(section, Tail(names), store)
    ELSE MergedOver(_merge_section(section, Get(store, Head(names))[1]).val,
                    Tail(names), store)

(* the stored modules whose first variant a variant inherits from, at any depth *)
InheritedFrom(store, variant) ==
    LET direct == DefaultsOf(variant) \cap Keys(store)
        first(S) == {d \in Keys(store) : \E n \in S : d \in DefaultsOf(Get(store, n)[1])}
        RECURSIVE grow(_, _)
        grow(S, fuel) == IF fuel = 0 THEN S ELSE grow(S \cup first(S), fuel - 1)
    IN  grow(direct, Len(store))

(* C5: after get_section(name) returns, no variant of name, nor of a module  *)
(* reached through its defaults, has a `defaults` key; every such variant    *)
(* equals the variant it was, merged over the now stored (resolved) first    *)
(* variant of each default it named; and every key of a module it inherits   *)
(* from, at any depth of the chain, is a key of the variant.                 *)
C5_Resolved ==
    (GotSection /\ call.exc = "none") =>
        \A n \in Reached(call.pre, call.name) :
            /\ Len(Get(sections, n)) = Len(Get(call.pre, n))
            /\ \A i \in DOMAIN Get(call.pre, n) :
                 LET before == Get(call.pre, n)[i]
                     after == Get(sections, n)[i]
                 IN  /\ ~Has(after, s_defaults)
                     /\ DictEq(after,
                               Del(MergedOver(before,
                                              IF Has(before, s_defaults)
                                              THEN defaults_names(Get(before, s_defaults))
                                              ELSE <<>>,
                                              sections),
                                   s_defaults))
                     /\ \A d \in InheritedFrom(call.pre, before) :
                          Keys(Get(call.pre, d)[1]) \ {s_defaults} \subseteq Keys(after)

(* a chain of depth two: A inherits sdk from C through B *)
C5_Witness ==
    /\ GotSection /\ call.exc = "none" /\ call.name = m_A
    /\ Has(call.pre, m_B) /\ Has(call.pre, m_C)
    /\ DefaultsOf(Get(call.pre, m_A)[1]) = {m_B}
    /\ DefaultsOf(Get(call.pre, m_B)[1]) = {m_C}
    /\ ~Has(Get(call.pre, m_A)[1], s_sdk)
    /\ ~Has(Get(call.pre, m_B)[1], s_sdk)
    /\ Has(Get(call.pre, m_C)[1], s_sdk)
    /\ Has(Get(sections, m_A)[1], s_sdk)
    /\ Get(sections, m_A)[1] # Get(call.pre, m_A)[1]

(* the value a key gets along a linear chain of defaults (every module of    *)
(* the chain naming at most one default, first variants followed): <<v>>     *)
(* for the value v of the most derived module that defines the key, <<>>     *)
(* when none does                                                           *)
RECURSIVE ChainValue(_, _, _, _)
ChainValue(store, variant, key, fuel) ==
    IF Has(variant, key) THEN <<Get(variant, key)>>
    ELSE IF fuel = 0 \/ DefaultsOf(variant) \cap Keys(store) = {} THEN <<>>
    ELSE ChainValue(store,
                    Get(store, CHOOSE d \in DefaultsOf(variant) \cap Keys(store) : TRUE)[1],
                    key, fuel - 1)

(* every module of the chain names at most one default, and wherever the key *)
(* is defined along the chain its value is a str, a bool or an int           *)
RECURSIVE ScalarChain(_, _, _, _)
ScalarChain(store, variant, key, fuel) ==
    /\ Has(variant, key) => IsScalar(Get(variant, key))
    /\ Has(variant, s_defaults) => Len(defaults_names(Get(variant, s_defaults))) = 1
    /\ \/ fuel = 0
       \/ DefaultsOf(variant) \cap Keys(store) = {}
       \/ ScalarChain(store,
                      Get(store, CHOOSE d \in DefaultsOf(variant) \cap Keys(store) : TRUE)[1],
                      key, fuel - 1)

(* C2: for a key that is scalar wherever it is defined along a chain of      *)
(* defaults M0 -> M1 -> ... -> Mk, get_section(M0) leaves in M0 the value of *)
(* the most derived module of the chain that defines the key (M0's own value *)
(* when both M0 and its default define it).                                  *)
C2_ScalarRule ==
    (GotSection /\ call.exc = "none") =>
        \A i \in DOMAIN Get(call.pre, call.name) :
            \A key \in {s_sdk, s_srcs, SECTION_TYPE, SECTION_PROJECT} :
                LET before == Get(call.pre, call.name)[i]
                    after == Get(sections, call.name)[i]
                    first == ChainValue(call.pre, before, key, Len(call.pre))
                IN  (ScalarChain(call.pre, before, key, Len(call.pre)) /\ first # <<>>) =>
                        /\ Has(after, key)
                        /\ Get(after, key) = first[1]

(* A (sdk "a") over B (sdk 1 or TRUE): A's value stays *)
C2_Witness ==
    /\ GotSection /\ call.exc = "none" /\ call.name = m_A
    /\ Has(call.pre, m_B)
    /\ DefaultsOf(Get(call.pre, m_A)[1]) = {m_B}
    /\ Has(Get(call.pre, m_B)[1], s_sdk)
    /\ Has(Get(call.pre, m_A)[1], s_sdk)
    /\ Get(call.pre, m_B)[1] # Get(sections, m_B)[1]
    /\ Get(Get(call.pre, m_A)[1], s_sdk) # Get(Get(sections, m_B)[1], s_sdk)
    /\ Get(Get(sections, m_A)[1], s_sdk) = VStr(s_a)

(* the names of `names` that are stored *)
StoredOnly(store, names) == SelectSeq(names, LAMBDA d : Has(store, d))

(* the store with every reference to a module that is not stored taken out   *)
(* of the `defaults` values                                                 *)
WithoutDangling(store) ==
    [e \in DOMAIN store |->
        Entry(store[e].k,
              [i \in DOMAIN store[e].v |->
                  LET variant == store[e].v[i] IN
                  IF Has(variant, s_defaults)
                  THEN Put(variant, s_defaults,
                           VList(StoredOnly(store,
                                            defaults_names(Get(variant, s_defaults)))))
                  ELSE variant])]

HasDangling(store, name) ==
    \E n \in Reached(store, name) : \E i \in DOMAIN Get(store, n) :
        ~(DefaultsOf(Get(store, n)[i]) \subseteq Keys(store))

(* C6: a default that is not stored never makes get_section of a stored      *)
(* module fail for a missing section, and the call ends as it would with     *)
(* that reference left out: the same outcome and, when it returns, the same  *)
(* stored sections (the other defaults merged, `defaults` removed) and the   *)
(* same value returned.                                                     *)
C6_MissingDefaultSkipped ==
    (GotSection /\ Has(call.pre, call.name) /\ call.type = NoType) =>
        LET clean == get_section_result(WithoutDangling(call.pre), call.name, call.type)
        IN  /\ call.exc # "BGraphMissingSectionException"
            /\ call.exc = clean.exc
            /\ call.exc = "none" =>
                 /\ call.ret = clean.val
                 /\ Keys(sections) = Keys(call.pre)
                 /\ \A n \in Keys(sections) :
                      Get(sections, n) = IF n \in Reached(call.pre, call.name)
                                         THEN Get(clean.store, n)
                                         ELSE Get(call.pre, n)

(* A names [Z, C]: Z is skipped, C's sdk is inherited *)
C6_Witness ==
    /\ GotSection /\ call.exc = "none" /\ call.name = m_A /\ call.type = NoType
    /\ HasDangling(call.pre, m_A)
    /\ Has(call.pre, m_C)
    /\ Get(Get(call.pre, m_A)[1], s_defaults) = VList(<<m_Z, m_C>>)
    /\ ~Has(Get(sections, m_A)[1], s_defaults)
    /\ ~Has(Get(call.pre, m_A)[1], s_sdk)
    /\ Has(Get(sections, m_A)[1], s_sdk)

(* C7: get_section never ends by exhausting the interpreter's stack: on a    *)
(* cycle of defaults the recursion stops by itself.                          *)
C7_CycleStops == GotSection => call.exc # "RecursionError"

----------------------------------------------------------------------------
(* SoongFileParser: the parse actions of the blueprint grammar.  A `value`   *)
(* of the grammar is written [form, lit, name]: a literal (form "lit", its   *)
(* Python value in lit) or a variable reference (form "ref", to name).       *)

Lit(val) == [form |-> "lit", lit |-> val, name |-> <<>>]

Ref(var_name) == [form |-> "ref", lit |-> VStr(<<>>), name |-> var_name]

(* mutant: a reference to an unknown name yields the empty string *)
parse_variable_ref_lenient(scope, var_name) ==
    IF Has(scope, var_name) THEN Ok(Get(scope, var_name)) ELSE Ok(VStr(<<>>))

(* SoongFileParser.parse_variable_ref *)
parse_variable_ref(scope, var_name) ==
    IF ~Has(scope, var_name)
    THEN Raise("BGraphParserException")
    ELSE Ok(Get(scope, var_name))

(* what the grammar makes of the value a parse action returns: a returned    *)
(* list is taken as the list of the tokens, any other value is one token     *)
tokens_of(val) ==
    IF Tag(val) = "list"
    THEN [i \in DOMAIN Val(val) |-> VStr(Val(val)[i])]
    ELSE <<val>>

(* the tokens of a `value`: string_list wraps its list, which stays one      *)
(* token; variable_ref returns the variable's value as it is                 *)
value(expr, scope) ==
    IF expr.form = "ref"
    THEN LET r == parse_variable_ref(scope, expr.name)
         IN  IF r.exc = "none"
             THEN [exc |-> "none", toks |-> tokens_of(r.val),
                   resolved |-> <<Entry(expr.name, r.val)>>]
             ELSE [exc |-> r.exc, toks |-> <<>>, resolved |-> <<>>]
    ELSE [exc |-> "none", toks |-> <<expr.lit>>, resolved |-> <<>>]

(* tokens[1] if len(tokens) == 2 else tokens[1:], tokens[0] being the name *)
token_value(toks) ==
    IF Len(toks) = 1 THEN toks[1] ELSE VList([i \in DOMAIN toks |-> Val(toks[i])])

(* Python's a + b *)
add(a, b) ==
    CASE Tag(a) = "str" /\ Tag(b) = "str" -> Ok(VStr(Val(a) \o Val(b)))
      [] Tag(a) = "list" /\ Tag(b) = "list" -> Ok(VList(Val(a) \o Val(b)))
      [] Tag(a) = "int" /\ Tag(b) = "int" -> Ok(VInt(Val(a) + Val(b)))
      [] OTHER -> Raise("TypeError")

(* [value] if type(value) is str else value *)
coerce(val) == IF Tag(val) = "str" THEN VList(<<Val(val)>>) ELSE val

(* mutant: the appended value comes first *)
append_value_reversed(actual_value, new_value) ==
    IF Tag(new_value) # Tag(actual_value)
    THEN add(coerce(new_value), coerce(actual_value))
    ELSE add(new_value, actual_value)

(* parse_variable_def, append: the value stored for the variable *)
append_value(actual_value, new_value) ==
    IF Tag(new_value) # Tag(actual_value)
    THEN add(coerce(actual_value), coerce(new_value))
    ELSE add(actual_value, new_value)

(* SoongFileParser.parse_variable_def: the scope after it, or the exception *)
parse_variable_def(scope, variable_name, toks, append) ==
    LET new_value == token_value(toks) IN
    IF ~append
    THEN [exc |-> "none", scope |-> Put(scope, variable_name, new_value)]
    ELSE IF ~Has(scope, variable_name)
    THEN [exc |-> "BGraphParserException", scope |-> scope]
    ELSE LET sum == append_value(Get(scope, variable_name), new_value)
         IN  IF sum.exc = "none"
             THEN [exc |-> "none", scope |-> Put(scope, variable_name, sum.val)]
             ELSE [exc |-> sum.exc, scope |-> scope]

(* SoongFileParser.parse_section_field *)
parse_section_field(identifiers, field_name, toks) ==
    Put(identifiers, field_name, token_value(toks))

(* section_body: the fields of a section, each through parse_section_field *)
RECURSIVE section_body(_, _, _)
section_body(fields, scope, identifiers) ==
    IF fields = <<>>
    THEN [exc |-> "none", identifiers |-> identifiers, resolved |-> <<>>]
    ELSE LET v == value(Head(fields).expr, scope) IN
         IF v.exc # "none"
         THEN [exc |-> v.exc, identifiers |-> identifiers, resolved |-> <<>>]
         ELSE LET rest == section_body(Tail(fields), scope,
                              parse_section_field(identifiers, Head(fields).name, v.toks))
              IN  [rest EXCEPT !.resolved = v.resolved \o rest.resolved]

s_name == <<"n", "a", "m", "e">>

soong_namespace == <<"s", "o", "o", "n", "g", "_", "n", "a", "m", "e", "s", "p", "a", "c", "e">>

(* mutant: the field stays in identifiers *)
taken_kept(identifiers, token) == identifiers

(* del self.identifiers[token] *)
taken(identifiers, token) == Del(identifiers, token)

(* parse_section, the loop over the field names: each must be in identifiers *)
(* and is taken out of it; `name` gives the section its name                 *)
RECURSIVE take_fields(_, _, _, _)
take_fields(names, identifiers, section_name, section_dict) ==
    IF names = <<>>
    THEN [exc |-> "none", identifiers |-> identifiers, name |-> section_name,
          dict |-> section_dict]
    ELSE LET token == Head(names) IN
         IF ~Has(identifiers, token)
         THEN [exc |-> "BGraphParserException", identifiers |-> identifiers,
               name |-> section_name, dict |-> section_dict]
         ELSE take_fields(Tail(names), taken(identifiers, token),
                          IF token = s_name THEN <<Get(identifiers, token)>>
                                            ELSE section_name,
                          IF token = s_name THEN section_dict
                                            ELSE Put(section_dict, token,
                                                     Get(identifiers, token)))

(* mutant: the new variant is put before the earlier ones *)
add_variant_first(before, section_dict) == <<section_dict>> \o before

(* self.sections[section_name].append(section_dict) *)
add_variant(before, section_dict) == Append(before, section_dict)

(* SoongFileParser.parse_section: section_name is <<>> for Python's None, a  *)
(* name is a str (the only kind the statements below give it)                *)
parse_section(psections, identifiers, type, names) ==
    LET t == take_fields(names, identifiers, <<>>,
                         <<Entry(SECTION_TYPE, VStr(type))>>)
    IN  IF t.exc # "none"
        THEN [exc |-> t.exc, sections |-> psections, identifiers |-> t.identifiers]
        ELSE IF t.name = <<>>
        THEN IF type = soong_namespace
             THEN [exc |-> "none", sections |-> psections, identifiers |-> t.identifiers]
             ELSE [exc |-> "BGraphParserException", sections |-> psections,
                   identifiers |-> t.identifiers]
        ELSE LET key == Val(t.name[1])
                 before == IF Has(psections, key) THEN Get(psections, key) ELSE <<>>
             IN  [exc |-> "none",
                  sections |-> Put(psections, key, add_variant(before, t.dict)),
                  identifiers |-> t.identifiers]

(* A statement of a blueprint file: `name = expr`, `name += expr`, or        *)
(* `type { fields }`; a section that is not closed matches its fields and    *)
(* then fails to match, and nothing after it is parsed.                      *)
VarDef(var_name, expr) ==
    [kind |-> "var_def", name |-> var_name, expr |-> expr, fields |-> <<>>,
     closed |-> TRUE]

VarAppend(var_name, expr) ==
    [kind |-> "var_append", name |-> var_name, expr |-> expr, fields |-> <<>>,
     closed |-> TRUE]

Field(field_name, expr) == [name |-> field_name, expr |-> expr]

SectionDef(type, fields, closed) ==
    [kind |-> "section", name |-> type, expr |-> Lit(VStr(<<>>)), fields |-> fields,
     closed |-> closed]

FieldNames(fields) == [i \in DOMAIN fields |-> fields[i].name]

(* one match of section_def | variable_def | variable_append on the rest of  *)
(* the file, its parse actions run                                           *)
match_statement(stmt, scope, psections, identifiers) ==
    IF stmt.kind = "section"
    THEN LET b == section_body(stmt.fields, scope, identifiers) IN
         IF b.exc # "none"
         THEN [exc |-> b.exc, scope |-> scope, sections |-> psections,
               identifiers |-> b.identifiers, resolved |-> b.resolved,
               stopped |-> FALSE]
         ELSE IF ~stmt.closed
         THEN [exc |-> "none", scope |-> scope, sections |-> psections,
               identifiers |-> b.identifiers, resolved |-> b.resolved,
               stopped |-> TRUE]
         ELSE LET r == parse_section(psections, b.identifiers, stmt.name,
                                     FieldNames(stmt.fields))
              IN  [exc |-> r.exc, scope |-> scope, sections |-> r.sections,
                   identifiers |-> r.identifiers, resolved |-> b.resolved,
                   stopped |-> FALSE]
    ELSE LET v == value(stmt.expr, scope) IN
         IF v.exc # "none"
         THEN [exc |-> v.exc, scope |-> scope, sections |-> psections,
               identifiers |-> identifiers, resolved |-> <<>>, stopped |-> FALSE]
         ELSE LET r == parse_variable_def(scope, stmt.name, v.toks,
                                          stmt.kind = "var_append")
              IN  [exc |-> r.exc, scope |-> r.scope, sections |-> psections,
                   identifiers |-> identifiers, resolved |-> v.resolved,
                   stopped |-> FALSE]

(* SoongFileParser.__init__, after parseFile: the parse is refused when a    *)
(* field was left in identifiers or when there is neither section nor        *)
(* variable                                                                  *)
parse_refused(psections, identifiers, scope) ==
    identifiers # <<>> \/ ~(psections # <<>> \/ scope # <<>>)

(* parse_file, the sections of the file into SoongParser.sections, each      *)
(* with the project, the file and the project path                          *)
stamp(section, project_name, file_path, project_path) ==
    Put(Put(Put(section, SECTION_PROJECT, VStr(project_name)),
            SOONG_FILE, VPath(file_path)),
        SECTION_PROJECT_PATH, VPath(project_path))

RECURSIVE append_all(_, _, _)
append_all(store, section_name, variants) ==
    IF variants = <<>> THEN store
    ELSE append_all(Put(store, section_name,
                        Append(IF Has(store, section_name)
                               THEN Get(store, section_name) ELSE <<>>,
                               Head(variants))),
                    section_name, Tail(variants))

RECURSIVE store_sections(_, _, _, _, _)
store_sections(store, psections, project_name, file_path, project_path) ==
    IF psections = <<>> THEN store
    ELSE store_sections(
             append_all(store, Head(psections).k,
                        [i \in DOMAIN Head(psections).v |->
                            stamp(Head(psections).v[i], project_name, file_path,
                                  project_path)]),
             Tail(psections), project_name, file_path, project_path)

(* dict.update *)
RECURSIVE update(_, _)
update(d, other) ==
    IF other = <<>> THEN d
    ELSE update(Put(d, Head(other).k, Head(other).v), Tail(other))

----------------------------------------------------------------------------
(* SoongParser.parse_project and parse_file, statement by statement *)

MaxFiles == 2

MaxStmts == 4

v_x == <<"x">>

v_y == <<"y">>

Statements ==
    { VarDef(v_x, Lit(VStr(s_a))),
      VarDef(v_x, Lit(VList(<<s_b>>))),
      VarDef(v_x, Lit(VInt(1))),
      VarDef(v_y, Ref(v_x)),
      VarAppend(v_x, Lit(VStr(s_a))),
      VarAppend(v_x, Lit(VList(<<s_b>>))),
      VarAppend(v_x, Ref(v_y)),
      SectionDef(cc_binary, <<Field(s_name, Lit(VStr(m_A))), Field(s_srcs, Ref(v_x))>>, TRUE),
      SectionDef(cc_binary, <<Field(s_srcs, Lit(VList(<<s_a>>)))>>, FALSE),
      SectionDef(cc_binary, <<Field(s_srcs, Lit(VList(<<s_a>>)))>>, TRUE),
      SectionDef(soong_namespace, <<>>, TRUE),
      SectionDef(cc_defaults, <<Field(s_sdk, Lit(VStr(s_b))), Field(s_name, Lit(VStr(m_A)))>>,
                 TRUE),
      SectionDef(cc_binary, <<Field(s_name, Lit(VStr(m_B))),
                              Field(s_srcs, Lit(VList(<<s_a>>))),
                              Field(s_srcs, Lit(VList(<<s_b>>)))>>, TRUE) }

Projects ==
    { [name |-> <<"p">>, dir |-> <<<<"p">>>>, phase |-> "files"],
      [name |-> <<"q">>, dir |-> <<<<"q">>>>, phase |-> "files"] }

(* the file parse_project hands to parse_file: one of the project, or one of *)
(* the `generic` directory beside it                                         *)
soong_file(proj) ==
    IF proj.phase = "files" THEN proj.dir \o <<DEFAULT_FILENAME>>
    ELSE <<s_generic, DEFAULT_FILENAME>>

ParseInit ==
    /\ ParserIdle
    /\ MergeIdle
    /\ GraphIdle
    /\ BuilderIdle
    /\ HeapIdle
    /\ call = NoCall

(* parse_project, up to its first loop: a new, empty project_variables *)
parse_project(proj) ==
    /\ project.phase = "idle"
    /\ n_files < MaxFiles
    /\ project' = proj
    /\ project_variables' = <<>>
    /\ assigned' = <<>>
    /\ last' = NoStatement
    /\ call' = [op |-> "parse_project"]
    /\ UNCHANGED <<sections, variables, parser, n_files, n_stmts>>
    /\ UNCHANGED merge_vars
    /\ UNCHANGED graph_vars
    /\ UNCHANGED builder_vars
    /\ UNCHANGED heap_vars

(* parse_file, up to the construction of the SoongFileParser: the files of   *)
(* the project share project_variables, a `generic` file gets a new dict     *)
parse_file_begin ==
    /\ project.phase \in {"files", "generic"}
    /\ parser.state = "none"
    /\ n_files < MaxFiles
    /\ LET scope == IF project.phase = "files" THEN project_variables ELSE <<>> IN
       /\ project_variables' = scope
       /\ assigned' = IF project.phase = "files" THEN assigned ELSE <<>>
       /\ call' = [op |-> "parse_file", status |-> "running", failed |-> FALSE,
                   exc |-> "none", named |-> project.phase = "files",
                   parsed |-> <<>>,
                   pre |-> [sections |-> sections, variables |-> variables,
                            project_variables |-> scope]]
    /\ parser' = [state |-> "parsing", file |-> soong_file(project),
                  sections |-> <<>>, identifiers |-> <<>>]
    /\ last' = NoStatement
    /\ n_files' = n_files + 1
    /\ UNCHANGED <<sections, variables, project, n_stmts>>
    /\ UNCHANGED merge_vars
    /\ UNCHANGED graph_vars
    /\ UNCHANGED builder_vars
    /\ UNCHANGED heap_vars

(* the grammar matches the next statement of the file.  Its parse actions    *)
(* write into project_variables, the dict the SoongFileParser was given.     *)
(* BGraphParserException is caught by parse_file, which returns; any other   *)
(* exception leaves parse_file and parse_project.                            *)
parse_statement(stmt) ==
    /\ parser.state = "parsing"
    /\ n_stmts < MaxStmts
    /\ LET r == match_statement(stmt, project_variables, parser.sections,
                                parser.identifiers)
       IN  /\ project_variables' = r.scope
           /\ last' = [kind |-> stmt.kind, stmt |-> stmt, exc |-> r.exc,
                       scope |-> project_variables, assigned |-> assigned,
                       resolved |-> r.resolved, sections |-> parser.sections]
           /\ assigned' = IF r.exc = "none" /\ stmt.kind # "section"
                          THEN Put(assigned, stmt.name, Get(r.scope, stmt.name))
                          ELSE assigned
           /\ parser' = IF r.exc = "none"
                        THEN [parser EXCEPT !.sections = r.sections,
                                            !.identifiers = r.identifiers,
                                            !.state = IF r.stopped THEN "stopped"
                                                      ELSE "parsing"]
                        ELSE NoParser
           /\ call' = CASE r.exc = "none" -> call
                        [] r.exc = "BGraphParserException" ->
                             [call EXCEPT !.status = "returned", !.failed = TRUE]
                        [] OTHER ->
                             [call EXCEPT !.status = "raised", !.failed = TRUE,
                                          !.exc = r.exc]
           /\ project' = IF r.exc \in {"none", "BGraphParserException"}
                         THEN project ELSE NoProject
    /\ n_stmts' = n_stmts + 1
    /\ UNCHANGED <<sections, variables, n_files>>
    /\ UNCHANGED merge_vars
    /\ UNCHANGED graph_vars
    /\ UNCHANGED builder_vars
    /\ UNCHANGED heap_vars

(* nothing more of the file matches: SoongFileParser.__init__ ends, and      *)
(* parse_file stores the sections and the variables                          *)
parse_file_end ==
    /\ parser.state \in {"parsing", "stopped"}
    /\ LET refused == parse_refused(parser.sections, parser.identifiers,
                                    project_variables)
       IN  /\ sections' = IF ~refused /\ project.phase = "files"
                          THEN store_sections(sections, parser.sections, project.name,
                                              parser.file, project.dir)
                          ELSE sections
           /\ variables' = IF refused THEN variables
                           ELSE update(variables, project_variables)
           /\ call' = [call EXCEPT !.status = "returned", !.failed = refused,
                                    !.parsed = IF refused THEN <<>> ELSE parser.sections]
    /\ parser' = NoParser
    /\ UNCHANGED <<project_variables, project, assigned, last, n_files, n_stmts>>
    /\ UNCHANGED merge_vars
    /\ UNCHANGED graph_vars
    /\ UNCHANGED builder_vars
    /\ UNCHANGED heap_vars

(* parse_project: the files of the project are done, the `generic` ones follow *)
parse_generic ==
    /\ project.phase = "files"
    /\ parser.state = "none"
    /\ project' = [project EXCEPT !.phase = "generic"]
    /\ UNCHANGED <<sections, variables, project_variables, parser, assigned, last,
                   n_files, n_stmts, call>>
    /\ UNCHANGED merge_vars
    /\ UNCHANGED graph_vars
    /\ UNCHANGED builder_vars
    /\ UNCHANGED heap_vars

(* parse_project returns *)
parse_project_end ==
    /\ project.phase = "generic"
    /\ parser.state = "none"
    /\ project' = NoProject
    /\ UNCHANGED <<sections, variables, project_variables, parser, assigned, last,
                   n_files, n_stmts, call>>
    /\ UNCHANGED merge_vars
    /\ UNCHANGED graph_vars
    /\ UNCHANGED builder_vars
    /\ UNCHANGED heap_vars

ParseNext ==
    \/ \E proj \in Projects : parse_project(proj)
    \/ parse_file_begin
    \/ \E stmt \in Statements : parse_statement(stmt)
    \/ parse_file_end
    \/ parse_generic
    \/ parse_project_end

SpecParse == ParseInit /\ [][ParseNext]_vars

----------------------------------------------------------------------------
(* Claims on the variable scopes and on parse_file *)

(* the names whose value a statement reads: the variables it refers to and,  *)
(* for an append, the variable it appends to                                 *)
Reads(stmt) ==
    (IF stmt.expr.form = "ref" THEN {stmt.expr.name} ELSE {})
    \cup (IF stmt.kind = "var_append" THEN {stmt.name} ELSE {})
    \cup {stmt.fields[i].expr.name :
            i \in {j \in DOMAIN stmt.fields : stmt.fields[j].expr.form = "ref"}}

FileFailed ==
    /\ call.op = "parse_file"
    /\ call.status # "running"
    /\ call.failed

Elements(val) == IF Tag(val) = "str" THEN <<Val(val)>> ELSE Val(val)

(* the value parse_variable_def takes from the tokens of the last statement *)
AppendedValue == token_value(value(last.stmt.expr, last.scope).toks)

AppendToDefined ==
    /\ last.kind = "var_append"
    /\ Has(last.scope, last.stmt.name)
    /\ value(last.stmt.expr, last.scope).exc = "none"

C10_FailedFileDiscarded ==
    FileFailed =>
        /\ call.status = "returned"
        /\ sections = call.pre.sections
        /\ variables = call.pre.variables
        /\ project_variables = call.pre.project_variables

----------------------------------------------------------------------------
(* Claims on the module definitions *)

(* the last statement is a whole module definition whose values all resolved *)
SectionMatched ==
    /\ last.kind = "section"
    /\ last.stmt.closed
    /\ \A n \in Reads(last.stmt) : Has(last.scope, n)

Nameless(stmt) == \A i \in DOMAIN stmt.fields : stmt.fields[i].name # s_name

(* the parse of the file has ended and the last statement was its last one *)
FileEnded == call.op = "parse_file" /\ call.status # "running"

(* C11: a module definition without `name` fails the parse of its file,      *)
(* unless its type is soong_namespace: then no exception is raised, no       *)
(* section is added, and the parse of a file that ends there has not failed, *)
(* whatever else the file and the scope hold.                                *)
C11_NamelessSection ==
    (SectionMatched /\ Nameless(last.stmt)) =>
        IF last.stmt.name = soong_namespace
        THEN /\ last.exc = "none"
             /\ parser # NoParser => parser.sections = last.sections
             /\ FileEnded => (~call.failed /\ call.parsed = last.sections)
        ELSE /\ last.exc = "BGraphParserException"
             /\ FileFailed

(* the variants stored under a name, none when the name is unknown *)
VariantsOf(store, section_name) ==
    IF Has(store, section_name) THEN Get(store, section_name) ELSE <<>>

(* the name a module definition gives: the value of its `name` field *)
NameOf(stmt) ==
    Val(stmt.fields[CHOOSE i \in DOMAIN stmt.fields : stmt.fields[i].name = s_name].expr.lit)

(* the variant holds the type and the fields of the definition, `name` apart *)
VariantOfDefinition(variant, stmt) ==
    /\ Has(variant, SECTION_TYPE)
    /\ Get(variant, SECTION_TYPE) = VStr(stmt.name)
    /\ ~Has(variant, s_name)
    /\ Keys(variant) =
          {SECTION_TYPE} \cup ({stmt.fields[i].name : i \in DOMAIN stmt.fields} \ {s_name})
    /\ \A i \in DOMAIN stmt.fields :
          (stmt.fields[i].name # s_name /\ stmt.fields[i].expr.form = "lit") =>
              Get(variant, stmt.fields[i].name) = stmt.fields[i].expr.lit

(* the sections of the file under way, or those it ended with *)
ParsedSections == IF parser # NoParser THEN parser.sections ELSE call.parsed

ModuleParsed ==
    /\ SectionMatched
    /\ ~Nameless(last.stmt)
    /\ last.exc = "none"
    /\ (FileEnded => ~call.failed)

Unstamped(variant) ==
    Del(Del(Del(variant, SECTION_PROJECT), SOONG_FILE), SECTION_PROJECT_PATH)

DuplicateField(stmt) ==
    \E i, j \in DOMAIN stmt.fields : i < j /\ stmt.fields[i].name = stmt.fields[j].name

(* C13: a module definition whose body names a field twice raises the        *)
(* parser's exception: the parse of the file stops there and has failed, and *)
(* the stored sections are those of before the file, so no module of that    *)
(* definition is stored.                                                     *)
C13_DuplicateFieldAborts ==
    (SectionMatched /\ DuplicateField(last.stmt)) =>
        /\ last.exc = "BGraphParserException"
        /\ parser = NoParser
        /\ FileFailed
        /\ call.status = "returned"
        /\ sections = call.pre.sections
        /\ ~Has(sections, NameOf(last.stmt))

(* the duplicate comes after a module of the same file that had parsed *)
C13_Witness ==
    /\ SectionMatched /\ DuplicateField(last.stmt)
    /\ last.sections # <<>>
    /\ FileFailed
    /\ sections = call.pre.sections

----------------------------------------------------------------------------
(* bgraph.builder.graph: strings, paths and patterns *)

startswith(s, prefix) ==
    Len(prefix) <= Len(s) /\ SubSeq(s, 1, Len(prefix)) = prefix

(* str.replace(old, new), old not empty: every occurrence, from the left *)
RECURSIVE replace(_, _, _)
replace(s, old, new) ==
    IF Len(s) < Len(old) THEN s
    ELSE IF startswith(s, old)
    THEN new \o replace(SubSeq(s, Len(old) + 1, Len(s)), old, new)
    ELSE <<Head(s)>> \o replace(Tail(s), old, new)

(* the components of a relative path written as a string: the pieces        *)
(* between the "/", the empty ones and the "." ones dropped as pathlib does  *)
RECURSIVE path_parts(_, _)
path_parts(s, part) ==
    LET kept == IF part = <<>> \/ part = <<".">> THEN <<>> ELSE <<part>> IN
    IF s = <<>> THEN kept
    ELSE IF Head(s) = "/" THEN kept \o path_parts(Tail(s), <<>>)
    ELSE path_parts(Tail(s), Append(part, Head(s)))

(* str(path), path.as_posix(): the components joined by "/" *)
RECURSIVE as_posix(_)
as_posix(parts) ==
    IF parts = <<>> THEN <<".">>
    ELSE IF Len(parts) = 1 THEN parts[1]
    ELSE parts[1] \o <<"/">> \o as_posix(Tail(parts))

(* path / file *)
joinpath(parts, file) == parts \o path_parts(file, <<>>)

(* path.parent *)
parent(parts) == IF parts = <<>> THEN <<>> ELSE SubSeq(parts, 1, Len(parts) - 1)

(* path.relative_to(other) does not raise ValueError *)
is_relative_to(parts, other) ==
    Len(other) <= Len(parts) /\ SubSeq(parts, 1, Len(other)) = other

relative_to(parts, other) == SubSeq(parts, Len(other) + 1, Len(parts))

(* fnmatch.fnmatch(name, pat) for patterns of plain characters, * and ? *)
RECURSIVE fnmatch(_, _)
fnmatch(name, pat) ==
    IF pat = <<>> THEN name = <<>>
    ELSE IF Head(pat) = "*"
    THEN fnmatch(name, Tail(pat)) \/ (name # <<>> /\ fnmatch(Tail(name), pat))
    ELSE IF name = <<>> THEN FALSE
    ELSE (Head(pat) = "?" \/ Head(pat) = Head(name)) /\ fnmatch(Tail(name), Tail(pat))

(* fnmatch.filter(names, pat) *)
fnmatch_filter(names, pat) == SelectSeq(names, LAMBDA name : fnmatch(name, pat))

(* recurse without the descent: the pairs of the nested dicts are left out *)
recurse_top(mapping) == SelectSeq(mapping, LAMBDA e : Tag(e.v) # "map")

(* bgraph.utils.recurse: the (key, value) pairs of a mapping, those of the   *)
(* nested dicts in place of the dicts                                        *)
RECURSIVE recurse(_)
recurse(mapping) ==
    IF mapping = <<>> THEN <<>>
    ELSE (IF Tag(Head(mapping).v) = "map"
          THEN recurse(Val(Head(mapping).v))
          ELSE <<Head(mapping)>>)
         \o recurse(Tail(mapping))

(* compute_file_list, the loop: the files of the project that are under the  *)
(* directory of the soong file, relative to it                               *)
RECURSIVE files_under(_, _, _)
files_under(soong_path, project_path, files) ==
    IF files = <<>> THEN <<>>
    ELSE LET full_path == joinpath(project_path, Head(files)) IN
         (IF /\ startswith(as_posix(full_path), as_posix(soong_path))
             /\ is_relative_to(full_path, soong_path)
          THEN <<as_posix(relative_to(full_path, soong_path))>>
          ELSE <<>>)
         \o files_under(soong_path, project_path, Tail(files))

(* compute_file_list: section_files after the call; the list returned is     *)
(* section_files[soong_path]                                                 *)
compute_file_list(section_files, soong_path, project_path, files) ==
    IF Has(section_files, soong_path) THEN section_files
    ELSE Put(section_files, soong_path, files_under(soong_path, project_path, files))

----------------------------------------------------------------------------
(* bgraph.builder.graph: the conversion of the sections into a graph.       *)
(* A graph under construction is [exc, nodes, edges, section_files]: nodes   *)
(* is the dict of the nodes' attributes, edges the dict of the edges' type   *)
(* under the pair <<origin, destination>>, section_files the cache of        *)
(* compute_file_list, exc the exception that ended the construction.         *)

s_shared_libs == <<"s", "h", "a", "r", "e", "d", "_", "l", "i", "b", "s">>

s_static_libs == <<"s", "t", "a", "t", "i", "c", "_", "l", "i", "b", "s">>

s_header_libs == <<"h", "e", "a", "d", "e", "r", "_", "l", "i", "b", "s">>

s_required == <<"r", "e", "q", "u", "i", "r", "e", "d">>

s_include_dirs == <<"i", "n", "c", "l", "u", "d", "e", "_", "d", "i", "r", "s">>

s_export_include_dirs == <<"e", "x", "p", "o", "r", "t", "_">> \o s_include_dirs

s_dirs == <<"d", "i", "r", "s">>

(* the dependency keys with cflags among them *)
dependencies_keys_and_flags ==
    {s_shared_libs, s_static_libs, s_header_libs,
     <<"w", "h", "o", "l", "e", "_">> \o s_static_libs,
     s_required,
     <<"s", "y", "s", "t", "e", "m", "_">> \o s_shared_libs,
     <<"c", "f", "l", "a", "g", "s">>}

dependencies_keys ==
    {s_shared_libs, s_static_libs, s_header_libs,
     <<"w", "h", "o", "l", "e", "_">> \o s_static_libs,
     s_required,
     <<"s", "y", "s", "t", "e", "m", "_">> \o s_shared_libs}

srcs_keys ==
    {s_srcs, s_include_dirs, <<"l", "o", "c", "a", "l", "_">> \o s_include_dirs,
     s_export_include_dirs}

(* the attributes of a node: of one made by add_edge, of one made by        *)
(* add_node(target, data = ...)                                             *)
NoData == [has |-> FALSE, data |-> <<>>]

Data(variants) == [has |-> TRUE, data |-> variants]

EmptyGraph == [exc |-> "none", nodes |-> <<>>, edges |-> <<>>, section_files |-> <<>>]

(* what networkx does with an end of a new edge *)
add_end(nodes, n) == IF Has(nodes, n) THEN nodes ELSE Put(nodes, n, NoData)

(* graph.add_edge(u, v, type = edge_type) *)
add_edge(g, u, v, edge_type) ==
    [g EXCEPT !.nodes = add_end(add_end(@, u), v),
              !.edges = Put(@, <<u, v>>, edge_type)]

(* edge_type after the tests on the key; "none" is None *)
edge_type_of(key) ==
    IF key \in dependencies_keys THEN "dep"
    ELSE IF key \in srcs_keys THEN "src"
    ELSE "none"

(* the first of the prefixes "./" and "." that dep starts with is removed *)
remove_prefix(dep) ==
    IF startswith(dep, <<".", "/">>) THEN SubSeq(dep, 3, Len(dep))
    ELSE IF startswith(dep, <<".">>) THEN SubSeq(dep, 2, Len(dep))
    ELSE dep

(* the pattern handed to fnmatch.filter for the entry dep of the key *)
pattern_of(key, dep) ==
    replace(remove_prefix(IF IsSubstring(s_dirs, key) THEN dep \o <<"*">> ELSE dep),
            <<"*", "*", "/">>, <<"*">>)

(* the loop over the files matched: one edge from each *)
RECURSIVE add_src_edges(_, _, _, _)
add_src_edges(g, soong_file_path, matched, section_name) ==
    IF matched = <<>> THEN g
    ELSE add_src_edges(add_edge(g, as_posix(joinpath(soong_file_path, Head(matched))),
                                section_name, "src"),
                       soong_file_path, Tail(matched), section_name)

(* the src branch for one entry, cache being section_files after             *)
(* compute_file_list                                                         *)
add_matched(g, cache, soong_file_path, pattern, section_name) ==
    add_src_edges([g EXCEPT !.section_files = cache], soong_file_path,
                  fnmatch_filter(Get(cache, soong_file_path), pattern), section_name)

(* add_dependency with an edge only from a name that is already a node *)
add_dependency_known(g, key, dep, section_name, soong_file_path, project_path, project_files) ==
    IF edge_type_of(key) = "src"
    THEN add_matched(g, compute_file_list(g.section_files, soong_file_path,
                                          project_path, project_files),
                     soong_file_path, pattern_of(key, dep), section_name)
    ELSE IF Has(g.nodes, dep) THEN add_edge(g, dep, section_name, "dep")
    ELSE g

(* the body of `for dep in value` *)
add_dependency(g, key, dep, section_name, soong_file_path, project_path, project_files) ==
    IF edge_type_of(key) = "src"
    THEN add_matched(g, compute_file_list(g.section_files, soong_file_path,
                                          project_path, project_files),
                     soong_file_path, pattern_of(key, dep), section_name)
    ELSE add_edge(g, dep, section_name, "dep")

(* `for dep in value`, deps being what the iteration of value gives *)
RECURSIVE add_dependencies(_, _, _, _, _, _, _)
add_dependencies(g, key, deps, section_name, soong_file_path, project_path, project_files) ==
    IF deps = <<>> THEN g
    ELSE add_dependencies(add_dependency(g, key, Head(deps), section_name,
                                         soong_file_path, project_path, project_files),
                          key, Tail(deps), section_name, soong_file_path,
                          project_path, project_files)

(* `for key, value in bgraph.utils.recurse(section)`: a value that cannot be *)
(* iterated under a key of one of the two lists raises TypeError             *)
RECURSIVE convert_pairs(_, _, _, _, _, _)
convert_pairs(g, pairs, section_name, soong_file_path, project_path, project_files) ==
    IF pairs = <<>> \/ g.exc # "none" THEN g
    ELSE IF edge_type_of(Head(pairs).k) = "none"
    THEN convert_pairs(g, Tail(pairs), section_name, soong_file_path,
                       project_path, project_files)
    ELSE IF ~CanIterate(Head(pairs).v)
    THEN [g EXCEPT !.exc = "TypeError"]
    ELSE convert_pairs(add_dependencies(g, Head(pairs).k, list(Head(pairs).v),
                                        section_name, soong_file_path,
                                        project_path, project_files),
                       Tail(pairs), section_name, soong_file_path,
                       project_path, project_files)

(* convert_section without its two early returns: a section without its     *)
(* project path or its build file is converted with empty paths             *)
convert_section_unguarded(g, section_name, section, project_files) ==
    IF ~Has(section, SECTION_PROJECT_PATH) \/ ~Has(section, SOONG_FILE)
       \/ Tag(Get(section, SOONG_FILE)) # "path"
    THEN convert_pairs(g, recurse(section), section_name, <<>>, <<>>, project_files)
    ELSE convert_pairs(g, recurse(section), section_name,
                       parent(Val(Get(section, SOONG_FILE))),
                       Val(Get(section, SECTION_PROJECT_PATH)), project_files)

(* convert_section(graph, section_files, section_name, section,             *)
(* project_files): the two early returns, then the loop                     *)
convert_section(g, section_name, section, project_files) ==
    IF ~Has(section, SECTION_PROJECT_PATH) THEN g
    ELSE IF ~Has(section, SOONG_FILE) \/ Tag(Get(section, SOONG_FILE)) # "path" THEN g
    ELSE convert_pairs(g, recurse(section), section_name,
                       parent(Val(Get(section, SOONG_FILE))),
                       Val(Get(section, SECTION_PROJECT_PATH)), project_files)

(* sp.file_listing.get(section.get(SECTION_PROJECT_PATH), []) *)
project_files_of(listing, section) ==
    IF Has(section, SECTION_PROJECT_PATH)
       /\ Has(listing, Val(Get(section, SECTION_PROJECT_PATH)))
    THEN Get(listing, Val(Get(section, SECTION_PROJECT_PATH)))
    ELSE <<>>

(* `for section in graph.nodes[section_name]["data"]` *)
RECURSIVE convert_variants(_, _, _, _)
convert_variants(g, section_name, variants, listing) ==
    IF variants = <<>> \/ g.exc # "none" THEN g
    ELSE convert_variants(convert_section(g, section_name, Head(variants),
                                          project_files_of(listing, Head(variants))),
                          section_name, Tail(variants), listing)

(* `for idx, section_name in enumerate(nodes)`, nodes being the nodes when   *)
(* the loop starts                                                          *)
RECURSIVE convert_nodes(_, _, _)
convert_nodes(g, names, listing) ==
    IF names = <<>> \/ g.exc # "none" THEN g
    ELSE convert_nodes(convert_variants(g, Head(names), Get(g.nodes, Head(names)).data,
                                        listing),
                       Tail(names), listing)

(* `for target in sp.sections: graph.add_node(target, data =                 *)
(* sp.get_section(target))`: the sections after the calls, or the exception  *)
(* that left one of them                                                     *)
RECURSIVE get_sections(_, _)
get_sections(r, targets) ==
    IF targets = <<>> \/ r.exc # "none" THEN r
    ELSE get_sections(get_section_result(r.store, Head(targets), NoType), Tail(targets))

(* the nodes after the first loop: the data of a node is the list held by    *)
(* sp.sections, so it is the list as the last get_section left it            *)
section_nodes(store) == [i \in DOMAIN store |-> [k |-> store[i].k, v |-> Data(store[i].v)]]

(* the graph returned, g being the graph when the second loop ends: none     *)
(* is returned when an exception ended the loop                             *)
returned_graph(g, store) ==
    IF g.exc # "none"
    THEN [exc |-> g.exc, store |-> store, nodes |-> <<>>, edges |-> <<>>]
    ELSE [exc |-> "none", store |-> store, nodes |-> g.nodes, edges |-> g.edges]

(* the second loop of build_source_map, r being the outcome of the first *)
converted(r, listing) ==
    IF r.exc # "none"
    THEN [exc |-> r.exc, store |-> r.store, nodes |-> <<>>, edges |-> <<>>]
    ELSE returned_graph(convert_nodes([EmptyGraph EXCEPT !.nodes = section_nodes(r.store)],
                                      KeyList(r.store), listing),
                        r.store)

(* build_source_map(sp): [exc, store, nodes, edges], store being sp.sections *)
(* when the call ends                                                        *)
build_source_map_result(store, listing) ==
    converted(get_sections([exc |-> "none", store |-> store, val |-> <<>>],
                           KeyList(store)),
              listing)

s_source == <<"s", "o", "u", "r", "c", "e">>

(* get_node_type answering the first type seen from the end of the list *)
get_node_type_reversed(node_d, all_types) ==
    IF ~node_d.has \/ \E i \in DOMAIN node_d.data : ~Has(node_d.data[i], SECTION_TYPE)
    THEN IF all_types THEN <<s_source>> ELSE s_source
    ELSE IF all_types
         THEN [i \in DOMAIN node_d.data |->
                  Val(Get(node_d.data[Len(node_d.data) + 1 - i], SECTION_TYPE))]
         ELSE Val(Get(node_d.data[Len(node_d.data)], SECTION_TYPE))

(* viewer.get_node_type(node_d, all_types): the types of the variants in   *)
(* the order of the list, or the last of them (node_types.pop()); "source"  *)
(* when the node has no "data" or a variant has no type (KeyError)          *)
get_node_type(node_d, all_types) ==
    IF ~node_d.has \/ \E i \in DOMAIN node_d.data : ~Has(node_d.data[i], SECTION_TYPE)
    THEN IF all_types THEN <<s_source>> ELSE s_source
    ELSE IF all_types
         THEN [i \in DOMAIN node_d.data |-> Val(Get(node_d.data[i], SECTION_TYPE))]
         ELSE Val(Get(node_d.data[Len(node_d.data)], SECTION_TYPE))

----------------------------------------------------------------------------
(* bgraph.viewer.viewer: the queries on a graph [nodes, edges] *)

(* the nodes with an edge into one of the nodes seen, and the nodes seen *)
with_predecessors(edges, seen) ==
    seen \cup {edges[i].k[1] : i \in {x \in DOMAIN edges : edges[x].k[2] \in seen}}

(* the nodes of ego_graph(graph.reverse(), target, radius=None): those the  *)
(* target is reached from, and the target                                   *)
RECURSIVE ego_reverse(_, _)
ego_reverse(edges, seen) ==
    IF with_predecessors(edges, seen) = seen THEN seen
    ELSE ego_reverse(edges, with_predecessors(edges, seen))

(* the nodes of the subgraph without successor in it: the subgraph is of    *)
(* the reversed graph, its nodes are sub                                    *)
without_successor(g, sub) ==
    SelectSeq(KeyList(g.nodes),
              LAMBDA n : /\ n \in sub
                         /\ \A i \in DOMAIN g.edges :
                                g.edges[i].k[2] = n => g.edges[i].k[1] \notin sub)

(* node_name in node, for two strings *)
contains(node, node_name) ==
    \E i \in 0..(Len(node) - Len(node_name)) :
        SubSeq(node, i + 1, i + Len(node_name)) = node_name

(* node_d["data"] when node_d is a string, the name of a node: a TypeError, *)
(* the exit of a node without "data"                                        *)
subscript_str(node) == NoData

(* get_graph_srcs(graph): get_node_type is given the names of the nodes *)
get_graph_srcs(g) ==
    SelectSeq(KeyList(g.nodes),
              LAMBDA node : get_node_type(subscript_str(node), FALSE) = s_source)

(* match_node(graph_srcs, node_name) *)
match_node(graph_srcs, node_name) ==
    IF SelectSeq(graph_srcs, LAMBDA node : contains(node, node_name)) = <<>>
    THEN [exc |-> "BGraphNodeNotFound", val |-> <<>>]
    ELSE IF Len(SelectSeq(graph_srcs, LAMBDA node : contains(node, node_name))) > 1
    THEN [exc |-> "BGraphTooManyNodes", val |-> <<>>]
    ELSE [exc |-> "none",
          val |-> SelectSeq(graph_srcs, LAMBDA node : contains(node, node_name))[1]]

DEFAULT_TYPES ==
    << <<"c", "c", "_", "l", "i", "b", "r", "a", "r", "y", "_", "s", "h", "a", "r", "e", "d">>,
       <<"c", "c", "_", "l", "i", "b", "r", "a", "r", "y">>,
       cc_binary,
       cc_library_static,
       <<"a", "n", "d", "r", "o", "i", "d", "_", "a", "p", "p">> >>

(* radius=None *)
None == -1

(* the nodes with an edge from one of the nodes seen, and the nodes seen *)
with_successors(edges, seen) ==
    seen \cup {edges[i].k[2] : i \in {x \in DOMAIN edges : edges[x].k[1] \in seen}}

(* the nodes of ego_graph(graph, n, radius): those at most radius edges    *)
(* away from the nodes seen                                                 *)
RECURSIVE ego_graph(_, _, _)
ego_graph(edges, seen, radius) ==
    IF radius = 0 \/ with_successors(edges, seen) = seen THEN seen
    ELSE ego_graph(edges, with_successors(edges, seen), radius - 1)

(* the results of find_target for a matched node *)
find_target_results(g, matched_node, return_types, radius) ==
    SelectSeq(KeyList(g.nodes),
              LAMBDA node :
                  /\ node \in ego_graph(g.edges, {matched_node}, radius) \ {matched_node}
                  /\ \E i \in DOMAIN get_node_type(Get(g.nodes, node), TRUE) :
                         \E j \in DOMAIN return_types :
                             get_node_type(Get(g.nodes, node), TRUE)[i] = return_types[j])

(* find_target(graph, source, return_types, radius), m being the outcome   *)
(* of match_node                                                            *)
find_target_matched(g, m, return_types, radius) ==
    IF m.exc # "none" THEN << <<>>, <<>> >>
    ELSE <<m.val, find_target_results(g, m.val, return_types, radius)>>

find_target_result(g, source, return_types, radius) ==
    find_target_matched(g, match_node(get_graph_srcs(g), source), return_types, radius)

(* find_sources(graph, target) *)
find_sources_result(g, target) ==
    IF ~Has(g.nodes, target) THEN <<>>
    ELSE without_successor(g, ego_reverse(g.edges, {target}) \ {target})

----------------------------------------------------------------------------
(* The sections and the file listings the graph is built from *)

(* the project root, the directory of the build file and the build file *)
p_root == <<<<"p">>>>

p_file == <<<<"p">>, <<"d">>, DEFAULT_FILENAME>>

f_c == <<"f", ".", "c">>

dot_g_c == <<".", "g", ".", "c">>

n_c == <<"n", ".", "c">>

star_c == <<"*", ".", "c">>

(* the files of the project p, relative to its root: those of the C18       *)
(* example under d, a sibling ab of a, a file a.h beside a, two sources,    *)
(* and a file of the directory dd beside d                                  *)
ProjectFiles ==
    << <<"d", "/", "a", "/", "b", ".", "h">>,
       <<"d", "/", "a", "/", "c", "/", "d", ".", "h">>,
       <<"d", "/", "x", "/", "y", ".", "h">>,
       <<"d", "/", "a", "b", "/", "z", ".", "h">>,
       <<"d", "/", "f", ".", "c">>,
       <<"d", "/", ".", "g", ".", "c">>,
       <<"d", "d", "/", "f", ".", "c">> >>

(* the files without the two sources *)
HeaderFiles == SubSeq(ProjectFiles, 1, 3)

(* the root of the project nested in p at p/d, whose build file is the      *)
(* build file p/d/Android.bp that the parse of p finds too                  *)
p_nested == <<<<"p">>, <<"d">>>>

(* the files of the nested project, relative to its root *)
NestedFiles == << <<"f", ".", "c">>, <<"a", "/", "b", ".", "h">> >>

Listings ==
    { <<>>,
      <<Entry(p_root, ProjectFiles)>>,
      <<Entry(p_root, HeaderFiles)>>,
      <<Entry(<<<<"q">>>>, ProjectFiles)>>,
      <<Entry(p_nested, NestedFiles)>>,
      <<Entry(p_root, HeaderFiles), Entry(p_nested, NestedFiles)>> }

(* what parse_file stamps on the sections of a build file *)
Stamped ==
    <<Entry(SECTION_PROJECT, VStr(<<"p">>)),
      Entry(SOONG_FILE, VPath(p_file)),
      Entry(SECTION_PROJECT_PATH, VPath(p_root))>>

StampedNested ==
    <<Entry(SECTION_PROJECT, VStr(<<"q">>)),
      Entry(SOONG_FILE, VPath(p_file)),
      Entry(SECTION_PROJECT_PATH, VPath(p_nested))>>

StampedNoPath ==
    <<Entry(SECTION_PROJECT, VStr(<<"p">>)), Entry(SOONG_FILE, VPath(p_file))>>

StampedNoFile ==
    <<Entry(SECTION_PROJECT, VStr(<<"p">>)), Entry(SECTION_PROJECT_PATH, VPath(p_root))>>

GraphProps ==
    { <<Entry(s_srcs, VList(<<f_c>>))>>,
      <<Entry(s_srcs, VList(<<dot_g_c>>))>>,
      <<Entry(s_srcs, VList(<<n_c>>))>>,
      <<Entry(s_include_dirs, VList(<<s_a>>))>>,
      <<Entry(s_shared_libs, VList(<<m_B, m_Z>>))>>,
      <<Entry(s_shared_libs, VStr(<<"l", "b">>))>>,
      <<Entry(s_arch, VMap(<<Entry(s_arm, VMap(<<Entry(s_static_libs, VList(<<m_Z>>)),
                                                 Entry(s_srcs, VList(<<star_c>>))>>))>>))>>,
      <<Entry(s_srcs, VList(<<f_c>>)),
        Entry(s_arch, VMap(<<Entry(s_shared_libs, VList(<<m_B>>)),
                             Entry(s_arm, VMap(<<Entry(s_srcs, VList(<<star_c>>))>>))>>))>>,
      <<Entry(s_srcs, VList(<<f_c>>)), Entry(s_required, VList(<<m_B>>))>>,
      <<Entry(s_defaults, VList(<<m_C>>)), Entry(s_srcs, VList(<<f_c>>))>>,
      <<Entry(s_required, VBool(TRUE))>> }

GraphVariant(props, meta) == <<Entry(SECTION_TYPE, VStr(cc_binary))>> \o props \o meta

(* the variants under the name A: one variant, or a first variant without    *)
(* one of its two stamps and a second one with both                          *)
GraphVariantsA ==
    {<<GraphVariant(props, Stamped)>> : props \in GraphProps}
    \cup {<<GraphVariant(props, meta)>> :
            props \in {<<Entry(s_srcs, VList(<<f_c>>)), Entry(s_required, VList(<<m_B>>))>>},
            meta \in {StampedNoPath, StampedNoFile}}
    \cup {<<GraphVariant(<<Entry(s_shared_libs, VList(<<m_Z>>))>>, meta),
            GraphVariant(<<Entry(s_srcs, VList(<<f_c>>))>>, Stamped)>> :
            meta \in {StampedNoPath, StampedNoFile}}
    \cup {<<GraphVariant(<<Entry(s_srcs, VList(<<f_c>>))>>, Stamped),
            <<Entry(SECTION_TYPE, VStr(cc_library_static)),
              Entry(s_srcs, VList(<<f_c>>))>> \o StampedNested>>}

GraphVariantsB ==
    { <<>>,
      <<GraphVariant(<<Entry(s_srcs, VList(<<f_c>>))>>, StampedNested)>>,
      <<GraphVariant(<<Entry(s_srcs, VList(<<f_c>>)),
                       Entry(s_static_libs, VList(<<m_A>>))>>, Stamped)>>,
      <<GraphVariant(<<Entry(s_export_include_dirs, VList(<<<<".">>>>))>>, Stamped)>> }

GraphDefaultsC ==
    { <<>>,
      << <<Entry(SECTION_TYPE, VStr(cc_defaults)),
           Entry(s_header_libs, VList(<<m_Z>>))>> \o Stamped >> }

GraphStores ==
    { Stored(m_A, a) \o Stored(m_B, b) \o Stored(m_C, c) :
        a \in GraphVariantsA, b \in GraphVariantsB, c \in GraphDefaultsC }

GraphInit ==
    /\ \E store \in GraphStores : sections = store
    /\ variables = <<>>
    /\ project_variables = <<>>
    /\ project = NoProject
    /\ parser = NoParser
    /\ assigned = <<>>
    /\ last = NoStatement
    /\ n_files = 0
    /\ n_stmts = 0
    /\ MergeIdle
    /\ GraphIdle
    /\ BuilderIdle
    /\ HeapIdle
    /\ call = NoCall

(* the setter of SoongParser.file_listing *)
set_file_listing(listing) ==
    /\ file_listing' = listing
    /\ UNCHANGED <<sections, graph, call>>
    /\ UNCHANGED parse_vars
    /\ UNCHANGED merge_vars
    /\ UNCHANGED builder_vars
    /\ UNCHANGED heap_vars

(* the end of build_source_map, r being its outcome *)
graph_built(r) ==
    /\ sections' = r.store
    /\ graph' = [exc |-> r.exc, nodes |-> r.nodes, edges |-> r.edges]
    /\ call' = [op |-> "build_source_map", pre |-> sections, listing |-> file_listing]

(* bgraph.builder.graph.build_source_map(sp) *)
build_source_map ==
    /\ graph_built(build_source_map_result(sections, file_listing))
    /\ UNCHANGED file_listing
    /\ UNCHANGED parse_vars
    /\ UNCHANGED merge_vars
    /\ UNCHANGED builder_vars
    /\ UNCHANGED heap_vars

(* the nodes asked for: modules, a name without definition, a file, and a  *)
(* name that is no node                                                     *)
Targets == {m_A, m_B, m_Z, <<"p", "/", "d", "/">> \o f_c, <<"Q">>}

(* bgraph.viewer.viewer.find_sources(graph, target) on the graph built *)
find_sources(target) ==
    /\ graph.exc = "none"
    /\ call' = [op |-> "find_sources", target |-> target,
                ret |-> find_sources_result(graph, target)]
    /\ UNCHANGED <<sections, graph, file_listing>>
    /\ UNCHANGED parse_vars
    /\ UNCHANGED merge_vars
    /\ UNCHANGED builder_vars
    /\ UNCHANGED heap_vars

(* the strings asked for: the name of a module, a file name, a part of the *)
(* path of every file, and a string no node has                             *)
Sources == {m_A, f_c, <<"d", "/">>, <<"Q">>}

(* bgraph.viewer.viewer.find_target(graph, source, radius=radius) *)
find_target(source, radius) ==
    /\ graph.exc = "none"
    /\ call' = [op |-> "find_target", source |-> source, radius |-> radius,
                ret |-> find_target_result(graph, source, DEFAULT_TYPES, radius)]
    /\ UNCHANGED <<sections, graph, file_listing>>
    /\ UNCHANGED parse_vars
    /\ UNCHANGED merge_vars
    /\ UNCHANGED builder_vars
    /\ UNCHANGED heap_vars

(* bgraph.viewer.viewer.get_node_type(graph.nodes[node], all_types) *)
node_type(node, all_types) ==
    /\ graph.exc = "none"
    /\ Has(graph.nodes, node)
    /\ call' = [op |-> "get_node_type", node_d |-> Get(graph.nodes, node),
                all_types |-> all_types,
                ret |-> get_node_type(Get(graph.nodes, node), all_types)]
    /\ UNCHANGED <<sections, graph, file_listing>>
    /\ UNCHANGED parse_vars
    /\ UNCHANGED merge_vars
    /\ UNCHANGED builder_vars
    /\ UNCHANGED heap_vars

GraphNext ==
    \/ \E listing \in Listings : set_file_listing(listing)
    \/ build_source_map
    \/ \E target \in Targets : find_sources(target)
    \/ \E source \in Sources, radius \in {None, 1} : find_target(source, radius)
    \/ \E node \in Targets, all_types \in BOOLEAN : node_type(node, all_types)

SpecGraph == GraphInit /\ [][GraphNext]_vars

----------------------------------------------------------------------------
(* Claims on the graph *)

(* build_source_map has returned a graph *)
GraphReturned == call.op = "build_source_map" /\ graph.exc = "none"

Edges == {graph.edges[i] : i \in DOMAIN graph.edges}

origin(e) == e.k[1]

destination(e) == e.k[2]

IsModule(n) == Has(graph.nodes, n) /\ Get(graph.nodes, n).has

(* the strings a value names: the members of a list, a string itself *)
Named(val) ==
    CASE Tag(val) = "list" -> {Val(val)[i] : i \in DOMAIN Val(val)}
      [] Tag(val) = "str" -> {Val(val)}
      [] OTHER -> {}

(* the strings the variants of a module name under the keys, at any depth *)
Declared(variants, keys) ==
    UNION { UNION { Named(recurse(variants[i])[j].v) :
                      j \in {x \in DOMAIN recurse(variants[i]) :
                               recurse(variants[i])[x].k \in keys} } :
            i \in DOMAIN variants }

(* the full paths of the files listed for the projects *)
ListedPaths(listing) ==
    UNION { {as_posix(joinpath(listing[i].k, listing[i].v[j])) : j \in DOMAIN listing[i].v} :
            i \in DOMAIN listing }

(* C14: in every graph returned by build_source_map every edge is tagged    *)
(* dep or src, its destination is a module node, which carries the variants *)
(* stored under its name and declared the origin under a key of the         *)
(* dependency or of the source class; the origin of a dep edge is the name  *)
(* the module declared, the origin of a src edge is the full path of a      *)
(* listed file; no edge points into a file node.                            *)
C14_EdgeDirection ==
    GraphReturned =>
        \A e \in Edges :
            /\ e.v \in {"dep", "src"}
            /\ IsModule(destination(e))
            /\ Has(sections, destination(e))
            /\ Get(graph.nodes, destination(e)).data = Get(sections, destination(e))
            /\ e.v = "dep" =>
                   origin(e) \in Declared(Get(sections, destination(e)), dependencies_keys)
            /\ e.v = "src" =>
                   /\ Declared(Get(sections, destination(e)), srcs_keys) # {}
                   /\ origin(e) \in ListedPaths(call.listing)
            /\ \A f \in Edges : f.v = "src" => origin(f) # destination(e)

(* C15: in every graph returned by build_source_map a node carries a        *)
(* payload exactly when it is a stored module, the payload being the        *)
(* resolved variants stored under its name; a node without payload, which   *)
(* get_node_type calls "source", is the origin of src edges only and never  *)
(* the origin of a dep edge.                                                *)
C15_NodeKind ==
    GraphReturned =>
        \A i \in DOMAIN graph.nodes :
            /\ graph.nodes[i].v.has <=> Has(sections, graph.nodes[i].k)
            /\ graph.nodes[i].v.has =>
                   graph.nodes[i].v.data = Get(sections, graph.nodes[i].k)
            /\ get_node_type(graph.nodes[i].v, FALSE) = s_source =>
                   /\ ~graph.nodes[i].v.has
                   /\ \A e \in Edges : origin(e) = graph.nodes[i].k => e.v = "src"

(* the variant has its project path and its build file *)
HasMetadata(variant) ==
    /\ Has(variant, SECTION_PROJECT_PATH)
    /\ Has(variant, SOONG_FILE)
    /\ Tag(Get(variant, SOONG_FILE)) = "path"

(* the strings of the lists the variant holds under the keys, at any depth *)
Listed(variant, keys) ==
    UNION { {recurse(variant)[j].v[2][x] : x \in DOMAIN recurse(variant)[j].v[2]} :
            j \in {y \in DOMAIN recurse(variant) :
                     /\ recurse(variant)[y].k \in keys
                     /\ Tag(recurse(variant)[y].v) = "list"} }

HasEdge(u, v, edge_type) == [k |-> <<u, v>>, v |-> edge_type] \in Edges

(* C16: in every graph returned, for every variant of a module that has its *)
(* build file and project path and every string s of a list under a         *)
(* dependency key, at any depth of the variant, there is a dep edge from    *)
(* the node named s itself to the module, whether a module named s is       *)
(* stored or not.                                                           *)
C16_LiteralDependencies ==
    GraphReturned =>
        \A i \in DOMAIN sections : \A j \in DOMAIN sections[i].v :
            HasMetadata(sections[i].v[j]) =>
                \A dep \in Listed(sections[i].v[j], dependencies_keys) :
                    /\ Has(graph.nodes, dep)
                    /\ HasEdge(dep, sections[i].k, "dep")

(* a dangling name under a nested dependency key got its edge *)
C16_Witness ==
    /\ GraphReturned
    /\ Has(Get(sections, m_A)[1], s_arch)
    /\ m_Z \in Listed(Get(sections, m_A)[1], dependencies_keys)
    /\ ~Has(sections, m_Z)
    /\ HasEdge(m_Z, m_A, "dep")

(* the edges into a node *)
EdgesInto(n) == {e \in Edges : destination(e) = n}

(* a name without a character that fnmatch reads as a wildcard *)
Literal(f) == \A i \in DOMAIN f : f[i] \notin {"*", "?", "["}

(* the only property of the variant is a srcs list of one literal filename *)
OnlyOneSource(variant) ==
    /\ Keys(variant) = {SECTION_TYPE, s_srcs, SECTION_PROJECT, SOONG_FILE,
                        SECTION_PROJECT_PATH}
    /\ Tag(Get(variant, s_srcs)) = "list"
    /\ Len(Val(Get(variant, s_srcs))) = 1
    /\ Literal(Val(Get(variant, s_srcs))[1])
    /\ HasMetadata(variant)

(* the full path of the only source: the directory of the build file / f *)
SourcePath(variant) ==
    as_posix(joinpath(parent(Val(Get(variant, SOONG_FILE))), Val(Get(variant, s_srcs))[1]))

(* the full paths of the files listed for the project of the variant *)
ProjectPaths(listing, variant) ==
    ListedPaths(SelectSeq(listing, LAMBDA e : e.k = Val(Get(variant, SECTION_PROJECT_PATH))))

(* C17: for a module whose only variant has as only property a srcs list    *)
(* of one literal filename f, the build file being in the directory D of    *)
(* the project P, the edges into the module are exactly one src edge from    *)
(* D/f when the listing of P contains that file, and none when it does not. *)
C17_LiteralSource ==
    GraphReturned =>
        \A i \in DOMAIN sections :
            (Len(sections[i].v) = 1 /\ OnlyOneSource(sections[i].v[1])) =>
                EdgesInto(sections[i].k) =
                    IF SourcePath(sections[i].v[1])
                         \in ProjectPaths(call.listing, sections[i].v[1])
                    THEN {[k |-> <<SourcePath(sections[i].v[1]), sections[i].k>>,
                           v |-> "src"]}
                    ELSE {}

dirs_keys == {key \in srcs_keys : IsSubstring(s_dirs, key)}

(* the only property of the variant is a list of one directory under the key *)
OnlyOneDirectory(variant, key) ==
    /\ Keys(variant) = {SECTION_TYPE, key, SECTION_PROJECT, SOONG_FILE,
                        SECTION_PROJECT_PATH}
    /\ Tag(Get(variant, key)) = "list"
    /\ Len(Val(Get(variant, key))) = 1
    /\ Literal(Val(Get(variant, key))[1])
    /\ HasMetadata(variant)

(* the directory the variant names under the key, as a path *)
DirectoryPath(variant, key) ==
    joinpath(parent(Val(Get(variant, SOONG_FILE))), Val(Get(variant, key))[1])

(* the full paths of the files listed for the project of the variant that   *)
(* are descendants of the directory                                         *)
Descendants(listing, variant, dir) ==
    UNION { {as_posix(joinpath(listing[i].k, listing[i].v[j])) :
               j \in {y \in DOMAIN listing[i].v :
                        is_relative_to(joinpath(listing[i].k, listing[i].v[y]), dir)}} :
            i \in {x \in DOMAIN listing :
                     listing[x].k = Val(Get(variant, SECTION_PROJECT_PATH))} }

(* C18: for a module whose only variant names one subdirectory d of the     *)
(* directory of its build file under include_dirs, local_include_dirs or    *)
(* export_include_dirs, the files with a src edge to the module are the     *)
(* listed files that are descendants of d at any depth, and no other: not   *)
(* the files of a sibling whose name starts with the same characters.       *)
C18_DirectoryKeys ==
    GraphReturned =>
        \A i \in DOMAIN sections : \A key \in dirs_keys :
            (Len(sections[i].v) = 1 /\ OnlyOneDirectory(sections[i].v[1], key)) =>
                /\ \A e \in EdgesInto(sections[i].k) : e.v = "src"
                /\ {origin(e) : e \in EdgesInto(sections[i].k)} =
                       Descendants(call.listing, sections[i].v[1],
                                   DirectoryPath(sections[i].v[1], key))

Built == call.op = "build_source_map"

(* the patterns of the variant: those of the members of the lists under the *)
(* source keys, at any depth                                                *)
SourcePatterns(variant) ==
    UNION { {pattern_of(recurse(variant)[j].k, recurse(variant)[j].v[2][x]) :
               x \in DOMAIN recurse(variant)[j].v[2]} :
            j \in {y \in DOMAIN recurse(variant) :
                     /\ recurse(variant)[y].k \in srcs_keys
                     /\ Tag(recurse(variant)[y].v) = "list"} }

(* the path is under the directory of the build file of the variant and,    *)
(* relative to it, matches one of the patterns of the variant               *)
MatchedBy(variant, path) ==
    /\ is_relative_to(path, parent(Val(Get(variant, SOONG_FILE))))
    /\ \E pat \in SourcePatterns(variant) :
           fnmatch(as_posix(relative_to(path, parent(Val(Get(variant, SOONG_FILE))))), pat)

(* the full paths of the files listed for the project of the variant that   *)
(* one of its patterns matches                                              *)
Matched(listing, variant) ==
    IF ~HasMetadata(variant) THEN {}
    ELSE UNION { {as_posix(joinpath(listing[i].k, listing[i].v[j])) :
                    j \in {y \in DOMAIN listing[i].v :
                             MatchedBy(variant, joinpath(listing[i].k, listing[i].v[y]))}} :
                 i \in {x \in DOMAIN listing :
                          listing[x].k = Val(Get(variant, SECTION_PROJECT_PATH))} }

(* the edges of the graph built from the module alone *)
EdgesAlone(name, variants, listing) ==
    {build_source_map_result(<<Entry(name, variants)>>, listing).edges[i] :
       i \in DOMAIN build_source_map_result(<<Entry(name, variants)>>, listing).edges}

(* C19: missing files never make build_source_map fail: it ends the same    *)
(* way whatever the file listing.  In the graph returned a pattern that     *)
(* matches no listed file adds no edge and no node (the origins of the src  *)
(* edges into a module are the listed files its patterns match, and every   *)
(* node without payload is the origin of an edge); a module whose project   *)
(* has no entry in the listing gets no src edge and all its dep edges; and  *)
(* the edges into every module are those it gets when built alone.          *)
C19_MissingFiles ==
    Built =>
        /\ \A listing \in Listings :
               build_source_map_result(call.pre, listing).exc = graph.exc
        /\ GraphReturned =>
               /\ \A i \in DOMAIN graph.nodes :
                      ~graph.nodes[i].v.has =>
                          \E e \in Edges : origin(e) = graph.nodes[i].k
               /\ \A i \in DOMAIN sections :
                      /\ {origin(e) : e \in {f \in EdgesInto(sections[i].k) : f.v = "src"}} =
                             UNION {Matched(call.listing, sections[i].v[j]) :
                                      j \in DOMAIN sections[i].v}
                      /\ \A j \in DOMAIN sections[i].v :
                             HasMetadata(sections[i].v[j]) =>
                                 \A dep \in Listed(sections[i].v[j], dependencies_keys) :
                                     HasEdge(dep, sections[i].k, "dep")
                      /\ EdgesInto(sections[i].k) =
                             EdgesAlone(sections[i].k, sections[i].v, call.listing)

(* the store without the variants that lack their project path or their     *)
(* build file, every name kept                                              *)
WithMetadata(store) ==
    [i \in DOMAIN store |->
        Entry(store[i].k, SelectSeq(store[i].v, LAMBDA variant : HasMetadata(variant)))]

EdgeSet(edges) == {edges[i] : i \in DOMAIN edges}

(* C20: a variant without its project path or without its build file is     *)
(* skipped: build_source_map ends as it does without such variants, and the *)
(* graph returned has the edges of the graph built without them (the        *)
(* variant adds no edge, dep or src, and the edges of the other variants    *)
(* and modules are the same), while every stored name is a module node      *)
(* carrying all its variants.                                               *)
C20_MissingMetadataSkipped ==
    Built =>
        /\ build_source_map_result(WithMetadata(sections), call.listing).exc = graph.exc
        /\ GraphReturned =>
               /\ Edges = EdgeSet(build_source_map_result(WithMetadata(sections),
                                                          call.listing).edges)
               /\ \A i \in DOMAIN sections :
                      /\ IsModule(sections[i].k)
                      /\ Get(graph.nodes, sections[i].k).data = sections[i].v
                      /\ (\A j \in DOMAIN sections[i].v : ~HasMetadata(sections[i].v[j]))
                             => EdgesInto(sections[i].k) = {}

(* a first variant without metadata names Z and got no edge; the second     *)
(* variant of the same module got its src edge                              *)
C20_Witness ==
    /\ GraphReturned
    /\ Has(sections, m_A)
    /\ Len(Get(sections, m_A)) = 2
    /\ ~HasMetadata(Get(sections, m_A)[1])
    /\ m_Z \in Declared(<<Get(sections, m_A)[1]>>, dependencies_keys)
    /\ ~HasEdge(m_Z, m_A, "dep")
    /\ IsModule(m_A)
    /\ HasEdge(as_posix(joinpath(parent(p_file), f_c)), m_A, "src")

----------------------------------------------------------------------------
(* Claims on the nesting, the order and the whole chain *)

(* the mapping with every dict directly in it replaced by its entries *)
RECURSIVE unnest(_)
unnest(mapping) ==
    IF mapping = <<>> THEN <<>>
    ELSE (IF Tag(Head(mapping).v) = "map" THEN Val(Head(mapping).v) ELSE <<Head(mapping)>>)
         \o unnest(Tail(mapping))

(* the pairs of the mapping level by level, for dicts nested three deep *)
Unnested(mapping) == unnest(unnest(unnest(mapping)))

(* the variant that holds the pair at top level, with the stamps of variant *)
AtTopLevel(variant, pair) ==
    <<pair>> \o SelectSeq(variant, LAMBDA e : e.k \in {SOONG_FILE, SECTION_PROJECT_PATH}
                                               /\ e.k # pair.k)

(* C21: recurse(mapping) yields the pairs whose value is not a dict, each    *)
(* once and from every depth, and no pair whose value is a dict; so the     *)
(* edges a variant gives are those its pairs give when each is held at top  *)
(* level.                                                                   *)
C21_RecurseAllDepths ==
    Built =>
        \A i \in DOMAIN sections : \A j \in DOMAIN sections[i].v :
            /\ recurse(sections[i].v[j]) = Unnested(sections[i].v[j])
            /\ \A x \in DOMAIN recurse(sections[i].v[j]) :
                   Tag(recurse(sections[i].v[j])[x].v) # "map"
            /\ GraphReturned =>
                   EdgesAlone(sections[i].k, <<sections[i].v[j]>>, call.listing) =
                       UNION { EdgesAlone(sections[i].k,
                                          <<AtTopLevel(sections[i].v[j],
                                                       recurse(sections[i].v[j])[x])>>,
                                          call.listing) :
                               x \in DOMAIN recurse(sections[i].v[j]) }

(* a variant with srcs at top level and under arch.arm and shared_libs      *)
(* under arch got the edges of the three                                    *)
C21_Witness ==
    /\ GraphReturned
    /\ Has(Get(sections, m_A)[1], s_arch)
    /\ Has(Get(sections, m_A)[1], s_srcs)
    /\ HasEdge(m_B, m_A, "dep")
    /\ HasEdge(as_posix(joinpath(parent(p_file), f_c)), m_A, "src")
    /\ HasEdge(as_posix(joinpath(parent(p_file), dot_g_c)), m_A, "src")

Reverse(seq) == [i \in DOMAIN seq |-> seq[Len(seq) + 1 - i]]

(* the store with the modules and the variants of each in the opposite order *)
Reordered(store) == Reverse([i \in DOMAIN store |-> Entry(store[i].k, Reverse(store[i].v))])

(* the two graphs have the same nodes, payloads (up to the order of the     *)
(* variants), edges and tags, or ended with the same exception              *)
SameGraph(g, h) ==
    /\ g.exc = h.exc
    /\ Keys(g.nodes) = Keys(h.nodes)
    /\ \A n \in Keys(g.nodes) :
           /\ Get(g.nodes, n).has = Get(h.nodes, n).has
           /\ EdgeSet(Get(g.nodes, n).data) = EdgeSet(Get(h.nodes, n).data)
    /\ EdgeSet(g.edges) = EdgeSet(h.edges)

----------------------------------------------------------------------------
(* The whole chain: the build files of a project are parsed, the file       *)
(* listing is set and the graph is built, as compose_manifest_branch and    *)
(* convert do                                                               *)

s_base == <<"b", "a", "s", "e">>

s_app == <<"a", "p", "p">>

s_libfoo == <<"l", "i", "b", "f", "o", "o">>

s_cflags == <<"c", "f", "l", "a", "g", "s">>

dash_DX == <<"-", "D", "X">>

main_c == <<"m", "a", "i", "n", ".", "c">>

ChainStatements ==
    { SectionDef(cc_defaults, <<Field(s_name, Lit(VStr(s_base))),
                                Field(s_cflags, Lit(VList(<<dash_DX>>)))>>, TRUE),
      SectionDef(cc_binary, <<Field(s_name, Lit(VStr(s_app))),
                              Field(s_defaults, Lit(VStr(s_base))),
                              Field(s_static_libs, Lit(VList(<<s_libfoo>>))),
                              Field(s_srcs, Lit(VList(<<main_c>>)))>>, TRUE),
      SectionDef(cc_binary, <<Field(s_name, Lit(VStr(s_libfoo))),
                              Field(s_srcs, Lit(VList(<<main_c>>)))>>, TRUE) }

ChainListings == { <<Entry(<<<<"p">>>>, <<main_c>>)>>, <<Entry(<<<<"p">>>>, <<>>)>> }

(* compose_manifest_branch parses the projects with a new SoongParser, then *)
(* sets the listing; the graph is built from the parser it saved            *)
ChainNext ==
    \/ \E proj \in Projects : file_listing = <<>> /\ parse_project(proj)
    \/ parse_file_begin
    \/ \E stmt \in ChainStatements : parse_statement(stmt)
    \/ parse_file_end
    \/ parse_generic
    \/ parse_project_end
    \/ \E listing \in ChainListings :
           /\ project.phase = "idle"
           /\ file_listing = <<>>
           /\ set_file_listing(listing)
    \/ project.phase = "idle" /\ file_listing # <<>> /\ build_source_map

SpecChain == ParseInit /\ [][ChainNext]_vars

(* one build file defined base and app, once each, and nothing else; the    *)
(* listing of the project of app is [main.c]; the graph was built from the  *)
(* sections as parsed                                                       *)
ChainCase ==
    /\ Built
    /\ Keys(sections) = {s_base, s_app}
    /\ Keys(call.pre) = {s_base, s_app}
    /\ Has(Get(call.pre, s_app)[1], s_defaults)
    /\ Len(Get(sections, s_base)) = 1
    /\ Len(Get(sections, s_app)) = 1
    /\ Get(Get(sections, s_app)[1], SOONG_FILE) = Get(Get(sections, s_base)[1], SOONG_FILE)
    /\ call.listing = <<Entry(Val(Get(Get(sections, s_app)[1], SECTION_PROJECT_PATH)),
                              <<main_c>>)>>

(* <dir>/main.c for the build file of app *)
ChainSource ==
    as_posix(joinpath(parent(Val(Get(Get(sections, s_app)[1], SOONG_FILE))), main_c))

(* C23: base (cc_defaults, cflags ["-DX"]) and app (cc_binary, defaults     *)
(* "base", static_libs ["libfoo"], srcs ["main.c"]) in the one build file   *)
(* of a project listed as ["main.c"]: after the parse and build_source_map  *)
(* the properties of app hold cflags ["-DX"] and no defaults; app is a node *)
(* with payload, libfoo and <dir>/main.c are nodes without; the edges are   *)
(* libfoo -> app tagged dep and <dir>/main.c -> app tagged src, and no      *)
(* other.                                                                   *)
C23_EndToEnd ==
    ChainCase =>
        /\ graph.exc = "none"
        /\ Get(Get(sections, s_app)[1], s_cflags) = VList(<<dash_DX>>)
        /\ ~Has(Get(sections, s_app)[1], s_defaults)
        /\ IsModule(s_app)
        /\ Get(graph.nodes, s_app).data = Get(sections, s_app)
        /\ Has(graph.nodes, s_libfoo) /\ ~IsModule(s_libfoo)
        /\ Has(graph.nodes, ChainSource) /\ ~IsModule(ChainSource)
        /\ Edges = {[k |-> <<s_libfoo, s_app>>, v |-> "dep"],
                    [k |-> <<ChainSource, s_app>>, v |-> "src"]}

C23_Witness ==
    /\ ChainCase
    /\ HasEdge(s_libfoo, s_app, "dep")
    /\ HasEdge(<<"p", "/">> \o main_c, s_app, "src")

----------------------------------------------------------------------------
(* SoongParser._merge_section on objects.  A dict or a list is a cell of    *)
(* the heap, [kind, items], and is named by a pointer <<"ref", address>>;   *)
(* the values of a dict are pointers or str, bool, int values, which are    *)
(* immutable.  An assignment stores the pointer, copy.deepcopy makes new    *)
(* cells, and a cell changes only where the code assigns into the object.   *)

Pointer(a) == <<"ref", a>>

(* type(v) *)
type_of(cells, v) == IF Tag(v) = "ref" THEN cells[Val(v)].kind ELSE Tag(v)

(* the value an object has: the dict or list read through its pointers *)
RECURSIVE deref(_, _)
RECURSIVE deref_items(_, _)
deref(cells, v) ==
    IF Tag(v) # "ref" THEN v
    ELSE IF cells[Val(v)].kind = "list" THEN VList(cells[Val(v)].items)
    ELSE VMap(deref_items(cells, cells[Val(v)].items))

deref_items(cells, items) ==
    IF items = <<>> THEN <<>>
    ELSE <<Entry(Head(items).k, deref(cells, Head(items).v))>>
         \o deref_items(cells, Tail(items))

RECURSIVE new_value(_, _)
RECURSIVE new_items(_, _, _)
RECURSIVE new_item(_, _, _)

(* a new dict object of the items built *)
new_dict(r) ==
    [cells |-> Append(r.cells, [kind |-> "map", items |-> r.items]),
     v |-> Pointer(Len(r.cells) + 1)]

(* new objects holding the value x: [cells, v], v being x or the pointer to it *)
new_value(cells, x) ==
    IF Tag(x) = "list"
    THEN [cells |-> Append(cells, [kind |-> "list", items |-> Val(x)]),
          v |-> Pointer(Len(cells) + 1)]
    ELSE IF Tag(x) = "map" THEN new_dict(new_items(cells, Val(x), <<>>))
    ELSE [cells |-> cells, v |-> x]

new_items(cells, items, done) ==
    IF items = <<>> THEN [cells |-> cells, items |-> done]
    ELSE new_item(new_value(cells, Head(items).v), items, done)

new_item(r, items, done) ==
    new_items(r.cells, Tail(items), Append(done, Entry(Head(items).k, r.v)))

(* final_map = default_map: no copy *)
deepcopy_shared(cells, v) == [cells |-> cells, v |-> v]

(* copy.deepcopy(v) *)
deepcopy(cells, v) == new_value(cells, deref(cells, v))

(* mapping[key] = v on the dict at address a *)
set_item(cells, a, key, v) == [cells EXCEPT ![a].items = Put(@, key, v)]

(* `key in mapping` *)
heap_contains(cells, mapping, key) ==
    CASE type_of(cells, mapping) = "map" -> Has(cells[Val(mapping)].items, key)
      [] type_of(cells, mapping) = "list" ->
            \E i \in DOMAIN cells[Val(mapping)].items : cells[Val(mapping)].items[i] = key
      [] type_of(cells, mapping) = "str" -> IsSubstring(key, Val(mapping))
      [] OTHER -> FALSE

(* list(current) *)
heap_list(cells, current) ==
    CASE type_of(cells, current) = "list" -> cells[Val(current)].items
      [] type_of(cells, current) = "str" -> [i \in DOMAIN Val(current) |-> <<Val(current)[i]>>]
      [] type_of(cells, current) = "map" -> KeyList(cells[Val(current)].items)
      [] OTHER -> <<>>

HeapOk(cells) == [exc |-> "none", cells |-> cells]

HeapRaise(cells) == [exc |-> "TypeError", cells |-> cells]

(* mapping[local_key] = local_val + list(mapping[local_key]): a new list *)
heap_merge_list(cells, a, local_key, local_val) ==
    IF type_of(cells, Get(cells[a].items, local_key)) \notin {"list", "str", "map"}
    THEN HeapRaise(cells)
    ELSE HeapOk(set_item(Append(cells,
                                [kind |-> "list",
                                 items |-> cells[Val(local_val)].items
                                           \o heap_list(cells, Get(cells[a].items, local_key))]),
                         a, local_key, Pointer(Len(cells) + 1)))

RECURSIVE heap_recursive_merge(_, _, _, _)
RECURSIVE heap_merge_items(_, _, _)
RECURSIVE heap_merge_rest(_, _, _)

(* recursive_merge(mapping, local_key, local_val): the exception and the    *)
(* heap it leaves                                                           *)
heap_recursive_merge(cells, mapping, local_key, local_val) ==
    IF type_of(cells, mapping) \notin {"map", "list", "str"} THEN HeapRaise(cells)
    ELSE IF ~heap_contains(cells, mapping, local_key)
    THEN IF type_of(cells, mapping) = "map"
         THEN HeapOk(set_item(cells, Val(mapping), local_key, local_val))
         ELSE HeapRaise(cells)
    ELSE IF type_of(cells, mapping) # "map"
    THEN IF type_of(cells, local_val) = "map" /\ cells[Val(local_val)].items = <<>>
         THEN HeapOk(cells)
         ELSE HeapRaise(cells)
    ELSE CASE type_of(cells, local_val) \in {"str", "bool", "int"} ->
                HeapOk(set_item(cells, Val(mapping), local_key, local_val))
           [] type_of(cells, local_val) = "list" ->
                heap_merge_list(cells, Val(mapping), local_key, local_val)
           [] type_of(cells, local_val) = "map" ->
                heap_merge_items(cells, Get(cells[Val(mapping)].items, local_key),
                                 cells[Val(local_val)].items)
           [] OTHER ->
                HeapOk(set_item(cells, Val(mapping), local_key, local_val))

(* `for key, val in items: recursive_merge(mapping, key, val)` *)
heap_merge_items(cells, mapping, items) ==
    IF items = <<>> THEN HeapOk(cells)
    ELSE heap_merge_rest(heap_recursive_merge(cells, mapping, Head(items).k, Head(items).v),
                         mapping, items)

heap_merge_rest(r, mapping, items) ==
    IF r.exc # "none" THEN r ELSE heap_merge_items(r.cells, mapping, Tail(items))

(* the loop of _merge_section over the items of section_map, copy being the *)
(* outcome of deepcopy: [exc, cells, val], val pointing to final_map        *)
heap_merge_into(copy, section_map) ==
    [exc |-> heap_merge_items(copy.cells, copy.v, copy.cells[Val(section_map)].items).exc,
     cells |-> heap_merge_items(copy.cells, copy.v, copy.cells[Val(section_map)].items).cells,
     val |-> copy.v]

(* _merge_section(section_map, default_map) on two dict objects *)
heap_merge_section(cells, section_map, default_map) ==
    heap_merge_into(deepcopy(cells, default_map), section_map)

(* The dicts the merges on objects are run on *)
HeapValues ==
    { VStr(s_b), VInt(1), VList(<<s_a>>), VMap(<<>>),
      VMap(<<Entry(s_arm, VStr(s_b))>>),
      VMap(<<Entry(s_arm, VList(<<s_a>>))>>) }

HeapSections ==
    {d \in MergeDicts : \A i \in DOMAIN d : d[i].v \in HeapValues}

HeapDefaults == {d \in HeapSections : Len(d) <= 1}

(* the number of defaults a section is merged with, one after the other *)
MaxMerges == 2

(* the heap with the section's dict, before any merge *)
heap_of_section(r) ==
    [cells |-> r.cells, pre |-> r.cells, section_map |-> r.v, child |-> r.v,
     default_map |-> r.v, exc |-> "none", merges |-> 0]

HeapInit ==
    /\ \E d \in HeapSections : heap = heap_of_section(new_value(<<>>, VMap(d)))
    /\ ParserIdle
    /\ MergeIdle
    /\ GraphIdle
    /\ BuilderIdle
    /\ call = NoCall

(* the heap after a merge of outcome r of the section h.section_map with    *)
(* the default d.v; pre holds the objects as they were at the call          *)
heap_merged(r, d, h) ==
    [cells |-> r.cells, pre |-> d.cells,
     section_map |-> IF r.exc = "none" THEN r.val ELSE h.section_map,
     child |-> h.section_map, default_map |-> d.v, exc |-> r.exc, merges |-> h.merges + 1]

heap_merge_default(d, h) ==
    heap_merged(heap_merge_section(d.cells, h.section_map, d.v), d, h)

(* `section_map = self._merge_section(section_map, default_map)` for one    *)
(* more default of the section, the default being a stored dict             *)
merge_on_heap(default_map) ==
    /\ heap.exc = "none"
    /\ heap.merges < MaxMerges
    /\ heap' = heap_merge_default(new_value(heap.cells, VMap(default_map)), heap)
    /\ UNCHANGED <<parser_vars, call>>
    /\ UNCHANGED merge_vars
    /\ UNCHANGED graph_vars
    /\ UNCHANGED builder_vars

HeapNext == \E default_map \in HeapDefaults : merge_on_heap(default_map)

SpecHeap == HeapInit /\ [][HeapNext]_vars

----------------------------------------------------------------------------
(* bgraph.builder.builder: the checkout of the projects of a branch.  The   *)
(* worktree holds the project directories that exist, those with a .git     *)
(* folder, and the files.pickle files: project path -> [ok, files]          *)

q_root == <<<<"q">>>>

(* the project paths of the manifest: a project, one nested in it, another *)
ManifestPaths == {p_root, p_nested, q_root}

(* the outcomes of the git commands and of pickle.dump in one call *)
Outcomes == [init : BOOLEAN, fetch : BOOLEAN, set : BOOLEAN, ls : BOOLEAN, dump : BOOLEAN]

(* git ls-tree -r --name-only of the project *)
ls_tree(project_path) == IF project_path = p_nested THEN NestedFiles ELSE <<main_c>>

(* project_path.mkdir(parents=True, exist_ok=True) *)
mkdir(tree, project_path) ==
    [tree EXCEPT !.dirs = @ \cup {SubSeq(project_path, 1, i) : i \in 1..Len(project_path)}]

(* git.init() and git.remote(...) in the project directory *)
git_init(tree, project_path) == [tree EXCEPT !.git = @ \cup {project_path}]

(* pickle.dump(files, open(project_path / "files.pickle", "wb")): the file  *)
(* is created by open, and holds the list when dump has not failed          *)
pickle_dump(tree, project_path, files, dumped) ==
    [tree EXCEPT !.pickles = Put(@, project_path, [ok |-> dumped, files |-> files])]

(* shutil.rmtree(project_path / ".git") *)
rmtree_git(tree, project_path) == [tree EXCEPT !.git = @ \ {project_path}]

(* partial_checkout(branch_name, project_path, git_dir), o being the        *)
(* outcomes of its commands: what it returns, or the exception it raises,   *)
(* and the worktree it leaves                                               *)
partial_checkout_result(tree, project_path, o) ==
    IF project_path \in tree.dirs
    THEN [ret |-> "True", tree |-> tree]
    ELSE IF project_path \notin mkdir(tree, project_path).git /\ ~o.init
    THEN [ret |-> "ErrorReturnCode", tree |-> mkdir(tree, project_path)]
    ELSE IF ~o.fetch \/ ~o.set
    THEN [ret |-> "False", tree |-> git_init(mkdir(tree, project_path), project_path)]
    ELSE IF ~o.dump
    THEN [ret |-> "False",
          tree |-> pickle_dump(git_init(mkdir(tree, project_path), project_path),
                               project_path, <<>>, FALSE)]
    ELSE [ret |-> "True",
          tree |-> rmtree_git(pickle_dump(git_init(mkdir(tree, project_path), project_path),
                                          project_path,
                                          IF o.ls THEN ls_tree(project_path) ELSE <<>>,
                                          TRUE),
                              project_path)]

(* bgraph.builder.builder.partial_checkout on a project of the manifest *)
partial_checkout(project_path, o) ==
    /\ worktree' = partial_checkout_result(worktree, project_path, o).tree
    /\ call' = [op |-> "partial_checkout", project_path |-> project_path,
                pre |-> worktree,
                ret |-> partial_checkout_result(worktree, project_path, o).ret]
    /\ UNCHANGED <<sections, file_listing, graph>>
    /\ UNCHANGED parse_vars
    /\ UNCHANGED merge_vars
    /\ UNCHANGED heap_vars

(* the files.pickle files pickle.load reads, each under its directory *)
RECURSIVE loaded(_)
loaded(pickles) ==
    IF pickles = <<>> THEN <<>>
    ELSE IF Head(pickles).v.ok
         THEN <<Entry(Head(pickles).k, Head(pickles).v.files)>> \o loaded(Tail(pickles))
         ELSE loaded(Tail(pickles))

(* bgraph.builder.builder.combine_files_path(branch_dir), assigned to the   *)
(* file listing; a file pickle.load cannot read is skipped when the error   *)
(* is a PickleError, and ends the call otherwise                            *)
combine_files_path(skipped) ==
    /\ file_listing' = IF skipped \/ \A i \in DOMAIN worktree.pickles : worktree.pickles[i].v.ok
                       THEN loaded(worktree.pickles)
                       ELSE file_listing
    /\ call' = [op |-> "combine_files_path",
                ret |-> IF skipped \/ \A i \in DOMAIN worktree.pickles : worktree.pickles[i].v.ok
                        THEN "none" ELSE "EOFError"]
    /\ UNCHANGED <<sections, graph, worktree>>
    /\ UNCHANGED parse_vars
    /\ UNCHANGED merge_vars
    /\ UNCHANGED heap_vars

CheckoutNext ==
    \/ \E project_path \in ManifestPaths, o \in Outcomes : partial_checkout(project_path, o)
    \/ \E skipped \in BOOLEAN : combine_files_path(skipped)

SpecCheckout == ParseInit /\ [][CheckoutNext]_vars

----------------------------------------------------------------------------
(* Claims on the queries *)

(* the nodes reached from the nodes seen along the edges, and the nodes seen *)
RECURSIVE ReachedFrom(_)
ReachedFrom(seen) ==
    IF {destination(e) : e \in {f \in Edges : origin(f) \in seen}} \subseteq seen THEN seen
    ELSE ReachedFrom(seen \cup {destination(e) : e \in {f \in Edges : origin(f) \in seen}})

(* the nodes without payload, other than the target, that reach the target *)
SourcesOf(target) ==
    {n \in Keys(graph.nodes) :
        /\ ~IsModule(n)
        /\ n # target
        /\ target \in ReachedFrom({n})}

(* C24: find_sources(graph, target) returns exactly the source files of the *)
(* target: the nodes without payload from which the target is reached along *)
(* the edges, all of them, and never a module node; it returns the empty    *)
(* list when the target is not a node of the graph.                         *)
C24_FindSources ==
    call.op = "find_sources" =>
        /\ {call.ret[i] : i \in DOMAIN call.ret} = SourcesOf(call.target)
        /\ \A i \in DOMAIN call.ret : ~IsModule(call.ret[i])
        /\ ~Has(graph.nodes, call.target) => call.ret = <<>>

(* the nodes without payload whose name contains the string *)
SourceFilesContaining(source) ==
    {n \in Keys(graph.nodes) : ~IsModule(n) /\ contains(n, source)}

(* C25: find_target resolves the string against the source-file nodes      *)
(* only: it returns the one node without payload whose name contains the    *)
(* string, never a module node, and ("", []) when no such node or more than *)
(* one contains it; the names of modules neither match nor make the string  *)
(* ambiguous.                                                               *)
C25_FindTargetMatchesSources ==
    call.op = "find_target" =>
        IF Cardinality(SourceFilesContaining(call.source)) = 1
        THEN call.ret[1] \in SourceFilesContaining(call.source)
        ELSE call.ret = << <<>>, <<>> >>

(* the types of the variants of a payload, in the order of the list *)
SectionTypes(data) == [i \in DOMAIN data |-> Val(Get(data[i], SECTION_TYPE))]

(* C26: get_node_type answers "source" for a node without payload, and      *)
(* ["source"] when all types are asked for; for a node with payload it      *)
(* answers the section types of all the variants in the stored order when   *)
(* all types are asked for, and the type of one of the variants otherwise.  *)
C26_NodeType ==
    call.op = "get_node_type" =>
        /\ (~call.node_d.has /\ ~call.all_types) => call.ret = s_source
        /\ (~call.node_d.has /\ call.all_types) => call.ret = <<s_source>>
        /\ (call.node_d.has /\ call.all_types) =>
               call.ret = SectionTypes(call.node_d.data)
        /\ (call.node_d.has /\ ~call.all_types) =>
               \E i \in DOMAIN call.node_d.data :
                   call.ret = SectionTypes(call.node_d.data)[i]

(* all the types of a node of two variants of different types were asked for *)
C26_Witness ==
    /\ call.op = "get_node_type"
    /\ call.all_types
    /\ call.node_d.has
    /\ Len(call.ret) = 2
    /\ call.ret[1] # call.ret[2]

----------------------------------------------------------------------------
(* Claims on the checkout *)

(* files.pickle of the project has been written *)
PickleWritten(project_path) ==
    /\ Has(worktree.pickles, project_path)
    /\ Get(worktree.pickles, project_path).ok

(* C27: partial_checkout returns True only if the files.pickle of the       *)
(* project has been written; after a failed attempt the next call redoes    *)
(* the checkout instead of returning True on the directory left behind.     *)
C27_TrueOnlyWithPickle ==
    (call.op = "partial_checkout" /\ call.ret = "True") => PickleWritten(call.project_path)

----------------------------------------------------------------------------
(* Claims on repeated and ordered resolutions *)

(* a call of outcome r returns what was returned before and leaves the      *)
(* store as it found it                                                     *)
SameAgain(r, store, returned) ==
    /\ r.exc = "none"
    /\ r.val = returned
    /\ r.store = store

(* the call repeated after get_section on another name, of outcome other *)
SameAfter(other, section_name, section_type, returned) ==
    SameAgain(get_section_result(other.store, section_name, section_type),
              other.store, returned)

(* C28: resolution is idempotent: once get_section(name) has returned, the  *)
(* same call made again, at once or after get_section on any other module,  *)
(* returns the same variants and leaves every stored map unchanged; no      *)
(* inherited list element is appended a second time.                        *)
C28_Idempotent ==
    (call.op = "get_section" /\ call.exc = "none") =>
        /\ SameAgain(get_section_result(sections, call.name, call.type), sections, call.ret)
        /\ \A other \in {m_A, m_B, m_C, m_Z} :
               SameAfter(get_section_result(sections, other, NoType),
                         call.name, call.type, call.ret)

(* get_section(A) made again on the store an earlier call resolved: A has   *)
(* its own source and the one inherited from C                              *)
C28_Witness ==
    /\ call.op = "get_section"
    /\ call.exc = "none"
    /\ call.name = m_A
    /\ call.type = NoType
    /\ call.pre = sections
    /\ Has(Get(sections, m_A)[1], s_srcs)
    /\ Get(Get(sections, m_A)[1], s_srcs) = VList(<<s_a, s_b>>)

(* the defaults a variant names, in the order it lists them *)
NamedDefaults(own) ==
    IF Tag(Get(own, s_defaults)) = "list" THEN Val(Get(own, s_defaults))
    ELSE <<Val(Get(own, s_defaults))>>

(* the defaults among the names that are stored and define the key *)
Defining(names, key) ==
    SelectSeq(names, LAMBDA d : Has(sections, d) /\ Has(Get(sections, d)[1], key))

(* the value of the key in the stored, resolved default *)
DefaultValue(d, key) == Get(Get(sections, d)[1], key)

(* the elements of the key in the defaults, one default after the other *)
RECURSIVE Inherited(_, _)
Inherited(ds, key) ==
    IF ds = <<>> THEN <<>>
    ELSE Val(DefaultValue(Head(ds), key)) \o Inherited(Tail(ds), key)

OwnElements(own, key) == IF Has(own, key) THEN Val(Get(own, key)) ELSE <<>>

(* the two rules for one key: own is the variant as it was stored, res the  *)
(* resolved variant, ds the defaults it names that define the key           *)
Precedence(own, res, ds, key) ==
    /\ (~Has(own, key) /\ ds # <<>> /\ IsScalar(DefaultValue(ds[1], key))) =>
           (Has(res, key) /\ Get(res, key) = DefaultValue(ds[1], key))
    /\ (/\ ds # <<>>
        /\ Has(own, key) => Tag(Get(own, key)) = "list"
        /\ \A j \in DOMAIN ds : Tag(DefaultValue(ds[j], key)) = "list") =>
           (Has(res, key) /\ Get(res, key) = VList(OwnElements(own, key) \o Inherited(ds, key)))

(* C29: when a module names the defaults [D1, ..., Dn], a scalar key the    *)
(* module does not define has the value of the earliest-listed default that *)
(* defines it, and a list key has the module's own elements followed by     *)
(* those of D1, then D2, ..., then Dn.                                      *)
C29_DefaultsPrecedence ==
    (call.op = "get_section" /\ call.exc = "none") =>
        \A i \in DOMAIN Get(call.pre, call.name) :
            Has(Get(call.pre, call.name)[i], s_defaults) =>
                \A key \in {s_srcs, s_sdk} :
                    Precedence(Get(call.pre, call.name)[i],
                               Get(sections, call.name)[i],
                               Defining(NamedDefaults(Get(call.pre, call.name)[i]), key),
                               key)

(* A named [B, C], both define the scalar key with different values and     *)
(* both define the list key with different elements                         *)
C29_Witness ==
    /\ call.op = "get_section"
    /\ call.exc = "none"
    /\ call.name = m_A
    /\ Has(Get(call.pre, m_A)[1], s_defaults)
    /\ Get(Get(call.pre, m_A)[1], s_defaults) = VList(<<m_B, m_C>>)
    /\ Has(Get(call.pre, m_A)[1], s_srcs)
    /\ ~Has(Get(call.pre, m_A)[1], s_sdk)
    /\ Defining(<<m_B, m_C>>, s_sdk) = <<m_B, m_C>>
    /\ Defining(<<m_B, m_C>>, s_srcs) = <<m_B, m_C>>
    /\ DefaultValue(m_B, s_sdk) # DefaultValue(m_C, s_sdk)
    /\ IsScalar(DefaultValue(m_B, s_sdk))
    /\ Tag(DefaultValue(m_B, s_srcs)) = "list"
    /\ Tag(DefaultValue(m_C, s_srcs)) = "list"
    /\ Inherited(<<m_B, m_C>>, s_srcs) # Inherited(<<m_C, m_B>>, s_srcs)

----------------------------------------------------------------------------
(* Claims on the merge run on objects *)

(* C30: _merge_section(child, default) leaves its two inputs as they were:  *)
(* every dict and list object that exists when the merge is called, those   *)
(* of the child map and of the default map and the ones nested in them, has *)
(* the same content when the merge ends.                                    *)
C30_MergeKeepsInputs ==
    heap.merges > 0 =>
        \A a \in DOMAIN heap.pre : heap.cells[a] = heap.pre[a]

(* a merge has returned whose result holds an object of the child under one *)
(* key, and under another key a dict merged from a dict of the default and  *)
(* one of the child                                                         *)
C30_Witness ==
    /\ heap.merges > 0
    /\ heap.exc = "none"
    /\ \E i \in DOMAIN heap.cells[Val(heap.child)].items :
           /\ Tag(heap.cells[Val(heap.child)].items[i].v) = "ref"
           /\ heap.cells[Val(heap.child)].items[i] \in
                  {heap.cells[Val(heap.section_map)].items[j] :
                       j \in DOMAIN heap.cells[Val(heap.section_map)].items}
    /\ \E key \in MergeKeys :
           /\ Has(heap.cells[Val(heap.child)].items, key)
           /\ Has(heap.cells[Val(heap.default_map)].items, key)
           /\ type_of(heap.cells, Get(heap.cells[Val(heap.child)].items, key)) = "map"
           /\ type_of(heap.cells, Get(heap.cells[Val(heap.default_map)].items, key)) = "map"
           /\ heap.cells[Val(Get(heap.cells[Val(heap.child)].items, key))].items # <<>>

====
